---- MODULE Spec2Model ----
(***************************************************************************)
(* Commands -> Actions compiler of the schematic copilot backend:          *)
(* catalog indexing (catalog/index.py), semantic validation                *)
(* (compile/validate.py), compilation (compile/compiler.py), automatic     *)
(* placement (compile/placement.py, layout/placer.py).                     *)
(*                                                                         *)
(* Python values are modelled as follows.                                  *)
(*   dict            function whose DOMAIN is the key set                  *)
(*   list            sequence                                              *)
(*   Optional[T]     sequence of length 0 (None / absent) or 1             *)
(*   JSON field of a catalog entry: record [t |-> tag, v |-> value] with   *)
(*                   t in {"absent", "str", "list", "bool", "other"}       *)
(*   float           integer (all inputs are whole numbers)                *)
(*   error/warning   record [idx |-> command index, code |-> message kind] *)
(* The layout module (layout/placer.py) is also driven on its own, by a    *)
(* caller that holds a GridPlacer and calls its methods.                   *)
(***************************************************************************)
EXTENDS Integers, Sequences, FiniteSets, TLC

VARIABLES
    pc,             \* position of the caller: "load", "load_failed", "input", "validated", "compiled"
    raw_catalog,    \* catalog["parts"] as loaded from JSON: sequence of [id, entry]
    parts_by_id,    \* index returned by index_parts
    load_warnings,  \* warnings returned by index_parts
    snapshot,       \* Optional[SnapshotDoc]
    commands,       \* CommandsDoc.commands
    vres,           \* Optional result of validate_commands
    cres,           \* Optional result of compile_to_actions
    allowed_part_ids, \* part ids the agent was allowed to use (argument of enforce_grounding)
    gres,           \* Optional result of enforce_grounding
    placer,         \* Optional GridPlacer object held by the caller of the layout module
    probe,          \* arguments for snap_to_grid and clamp_rotation: [x, y, rotation]
    snapped,        \* Optional result of snap_to_grid
    clamped,        \* Optional result of clamp_rotation
    calls,          \* place_all calls made on the placer: sequence of [new_parts, snapshot, result]
    scan,           \* Optional frame of a running find_free_slot call: its locals and its result
    norm            \* Optional frame of a running normalize_net_name call: its locals and its result

vars == <<pc, raw_catalog, parts_by_id, load_warnings, snapshot, commands, vres, cres,
          allowed_part_ids, gres, placer, probe, snapped, clamped, calls, scan, norm>>

-----------------------------------------------------------------------------
(* Generic helpers for Python containers *)

None == <<>>
Some(v) == <<v>>

DictSet(d, k, v) == [x \in (DOMAIN d) \cup {k} |-> IF x = k THEN v ELSE d[x]]

SeqToSet(s) == {s[i] : i \in 1..Len(s)}

EmptyDict == <<>>

-----------------------------------------------------------------------------
(* catalog/index.py *)

Absent == [t |-> "absent", v |-> ""]
Str(s) == [t |-> "str", v |-> s]
List(l) == [t |-> "list", v |-> l]
Bool(b) == [t |-> "bool", v |-> b]
Other == [t |-> "other", v |-> ""]

\* One iteration of the loop of index_parts over catalog["parts"].items().
IndexPartsStep(acc, item) ==
    LET part_id == item.id
        part_entry == item.entry
        w1 == IF part_entry.catalog_id.t # "absent" /\ part_entry.catalog_id # Str(part_id)
              THEN Append(acc.warnings, [idx |-> part_id, code |-> "catalog_id_mismatch"])
              ELSE acc.warnings
    IN  IF acc.raised THEN acc
        ELSE IF ~part_entry.is_dict
        THEN [acc EXCEPT !.warnings = Append(acc.warnings, [idx |-> part_id, code |-> "not_a_dict"])]
        ELSE IF part_entry.fusion_add.t = "absent"
        THEN [acc EXCEPT !.raised = TRUE, !.warnings = w1]
        ELSE IF part_entry.fusion_add.t # "str"
        THEN [acc EXCEPT !.raised = TRUE, !.warnings = w1]
        ELSE IF part_entry.pins.t = "absent"
        THEN [acc EXCEPT
                !.parts_by_id = DictSet(acc.parts_by_id, part_id, [part_entry EXCEPT !.pins = List(<<>>)]),
                !.warnings = Append(w1, [idx |-> part_id, code |-> "missing_pins"])]
        ELSE IF part_entry.pins.t # "list"
        THEN [acc EXCEPT !.raised = TRUE, !.warnings = w1]
        ELSE [acc EXCEPT
                !.parts_by_id = DictSet(acc.parts_by_id, part_id, part_entry),
                !.warnings = w1]

RECURSIVE IndexPartsLoop(_, _, _)
IndexPartsLoop(parts, i, acc) ==
    IF i > Len(parts) THEN acc
    ELSE IndexPartsLoop(parts, i + 1, IndexPartsStep(acc, parts[i]))

\* index_parts(catalog): (parts_by_id, warnings), or raised = TRUE for ValueError.
index_parts(parts) ==
    IndexPartsLoop(parts, 1, [parts_by_id |-> EmptyDict, warnings |-> <<>>, raised |-> FALSE])

\* catalog_entry.get("pins", [])
EntryPins(entry) == IF entry.pins.t = "absent" THEN <<>> ELSE entry.pins.v

\* catalog_entry.get("set_value", False), by truthiness
EntrySetValue(entry) == entry.set_value.t = "bool" /\ entry.set_value.v

-----------------------------------------------------------------------------
(* domain/models_snapshot.py *)

\* snapshot_component_map: refdes -> SnapshotComponent (a later duplicate wins)
RECURSIVE ComponentMapLoop(_, _, _)
ComponentMapLoop(comps, i, acc) ==
    IF i > Len(comps) THEN acc
    ELSE ComponentMapLoop(comps, i + 1, DictSet(acc, comps[i].refdes, comps[i]))

snapshot_component_map(snap) == ComponentMapLoop(snap.components, 1, EmptyDict)

-----------------------------------------------------------------------------
(* compile/validate.py *)

Err(i, code) == [idx |-> i, code |-> code]

\* State of validate_commands before the loop (lines 51-69).
ValidateInit(catalog, snap) ==
    LET snapshot_components == IF snap # None THEN snapshot_component_map(snap[1]) ELSE EmptyDict
        snapshot_nets_set == IF snap # None
                             THEN {snap[1].nets[k].net_name : k \in 1..Len(snap[1].nets)}
                             ELSE {}
    IN  [errors |-> <<>>,
         warnings |-> <<>>,
         raised |-> FALSE,
         snapshot_components |-> snapshot_components,
         newly_added_refdes |-> {},
         known_refdes |-> DOMAIN snapshot_components,
         created_nets |-> {},
         known_nets |-> snapshot_nets_set,
         net_renames |-> EmptyDict,
         refdes_to_part_id |-> EmptyDict]

AddErr(st, i, code) == [st EXCEPT !.errors = Append(st.errors, Err(i, code))]
AddWarn(st, i, code) == [st EXCEPT !.warnings = Append(st.warnings, Err(i, code))]

\* add_component branch (lines 77-97)
ValidateAddComponent(st, i, cmd, catalog) ==
    LET s1 == IF cmd.args.part_id \notin DOMAIN catalog
              THEN AddErr(st, i, "add_part_not_in_catalog")
              ELSE st
    IN  IF cmd.args.refdes \in s1.newly_added_refdes
        THEN AddErr(s1, i, "add_refdes_duplicates_earlier_add")
        ELSE IF cmd.args.refdes \in DOMAIN s1.snapshot_components
        THEN AddErr(s1, i, "add_refdes_exists_in_snapshot")
        ELSE [s1 EXCEPT
                !.newly_added_refdes = @ \cup {cmd.args.refdes},
                !.known_refdes = @ \cup {cmd.args.refdes},
                !.refdes_to_part_id = DictSet(@, cmd.args.refdes, cmd.args.part_id)]

\* remove_component branch (lines 102-106)
ValidateRemoveComponent(st, i, cmd) ==
    IF cmd.args.refdes \notin st.known_refdes
    THEN AddErr(st, i, "remove_refdes_unknown")
    ELSE st

\* ValidateCreateNet that reports an existing net as an error
ValidateCreateNet_Error(st, i, cmd) ==
    IF cmd.args.net_name \in st.known_nets
    THEN AddErr(st, i, "create_net_exists")
    ELSE [st EXCEPT !.created_nets = @ \cup {cmd.args.net_name},
                    !.known_nets = @ \cup {cmd.args.net_name}]

\* create_net branch (lines 111-118)
ValidateCreateNet(st, i, cmd) ==
    IF cmd.args.net_name \in st.known_nets
    THEN AddWarn(st, i, "create_net_exists")
    ELSE [st EXCEPT !.created_nets = @ \cup {cmd.args.net_name},
                    !.known_nets = @ \cup {cmd.args.net_name}]

\* ValidateRenameNet that leaves known_nets as it was
ValidateRenameNet_NoTracking(st, i, cmd) ==
    LET s1 == IF cmd.args.from \notin st.known_nets
              THEN AddErr(st, i, "rename_from_unknown")
              ELSE st
    IN  IF cmd.args.to \in st.known_nets /\ cmd.args.to # cmd.args.from
        THEN AddErr(s1, i, "rename_to_exists")
        ELSE s1

\* rename_net branch (lines 123-140)
ValidateRenameNet(st, i, cmd) ==
    LET s1 == IF cmd.args.from \notin st.known_nets
              THEN AddErr(st, i, "rename_from_unknown")
              ELSE st
        s2 == IF cmd.args.to \in st.known_nets /\ cmd.args.to # cmd.args.from
              THEN AddErr(s1, i, "rename_to_exists")
              ELSE s1
    IN  IF cmd.args.from \in st.known_nets
        THEN [s2 EXCEPT !.known_nets = (@ \ {cmd.args.from}) \cup {cmd.args.to},
                        !.net_renames = DictSet(@, cmd.args.from, cmd.args.to)]
        ELSE s2

\* Pin check against the snapshot-reported pins of an existing component
\* (lines 163-178 for connect, 207-220 for disconnect).
ValidateSnapshotPin(st, i, cmd, which) ==
    LET snapshot_pins == st.snapshot_components[cmd.args.refdes].pins
    IN  IF snapshot_pins # <<>>
        THEN IF cmd.args.pin \notin SeqToSet(snapshot_pins)
             THEN AddErr(st, i, which \o "_pin_not_in_snapshot")
             ELSE st
        ELSE AddWarn(st, i, which \o "_pin_unchecked")

\* connect on a newly added component: cmd.args.pin against the catalog pins
\* (lines 155-162).
ConnectNewPinCheck(st, i, cmd, catalog) ==
    LET part_id == st.refdes_to_part_id[cmd.args.refdes]
    IN  IF part_id # "" /\ part_id \in DOMAIN catalog
        THEN IF cmd.args.pin \notin SeqToSet(EntryPins(catalog[part_id]))
             THEN AddErr(st, i, "connect_pin_not_in_catalog")
             ELSE st
        ELSE st

\* ValidateConnect without the check that the refdes is known
ValidateConnect_NoRefdesCheck(st, i, cmd, catalog) ==
    LET s1 == IF cmd.args.refdes \in st.newly_added_refdes
              THEN ConnectNewPinCheck(st, i, cmd, catalog)
              ELSE IF cmd.args.refdes \in DOMAIN st.snapshot_components
              THEN ValidateSnapshotPin(st, i, cmd, "connect")
              ELSE st
    IN  IF cmd.args.net_name \notin s1.known_nets
        THEN [AddWarn(s1, i, "connect_net_auto_created")
                EXCEPT !.known_nets = @ \cup {cmd.args.net_name}]
        ELSE s1

\* connect branch (lines 145-185)
ValidateConnect(st, i, cmd, catalog) ==
    LET s1 == IF cmd.args.refdes \notin st.known_refdes
              THEN AddErr(st, i, "connect_refdes_unknown")
              ELSE IF cmd.args.refdes \in st.newly_added_refdes
              THEN ConnectNewPinCheck(st, i, cmd, catalog)
              ELSE IF cmd.args.refdes \in DOMAIN st.snapshot_components
              THEN ValidateSnapshotPin(st, i, cmd, "connect")
              ELSE st
    IN  IF cmd.args.net_name \notin s1.known_nets
        THEN [AddWarn(s1, i, "connect_net_auto_created")
                EXCEPT !.known_nets = @ \cup {cmd.args.net_name}]
        ELSE s1

\* disconnect on a newly added component (lines 199-206): the test on line 202
\* reads cmd.args.args.pin; DisconnectArgs has no attribute "args", so the
\* attribute access raises AttributeError whatever the pin is.
DisconnectNewPinCheck(st, i, cmd, catalog) ==
    LET part_id == st.refdes_to_part_id[cmd.args.refdes]
    IN  IF part_id # "" /\ part_id \in DOMAIN catalog
        THEN [st EXCEPT !.raised = TRUE]
        ELSE st

\* Is (refdes, pin) connected to net_name in the snapshot (lines 224-230)
ConnectionExists(snap, cmd) ==
    \E n \in 1..Len(snap.nets) :
        /\ snap.nets[n].net_name = cmd.args.net_name
        /\ \E c \in 1..Len(snap.nets[n].connections) :
              /\ snap.nets[n].connections[c].refdes = cmd.args.refdes
              /\ snap.nets[n].connections[c].pin = cmd.args.pin

\* disconnect branch (lines 190-236)
ValidateDisconnect(st, i, cmd, catalog, snap) ==
    LET s1 == IF cmd.args.refdes \notin st.known_refdes
              THEN AddErr(st, i, "disconnect_refdes_unknown")
              ELSE IF cmd.args.refdes \in st.newly_added_refdes
              THEN DisconnectNewPinCheck(st, i, cmd, catalog)
              ELSE IF cmd.args.refdes \in DOMAIN st.snapshot_components
              THEN ValidateSnapshotPin(st, i, cmd, "disconnect")
              ELSE st
    IN  IF s1.raised THEN s1
        ELSE IF snap # None /\ cmd.args.refdes \in DOMAIN st.snapshot_components
                /\ ~ConnectionExists(snap[1], cmd)
        THEN AddWarn(s1, i, "disconnect_connection_missing")
        ELSE s1

\* set_value branch (lines 241-262)
ValidateSetValue(st, i, cmd, catalog) ==
    IF cmd.args.refdes \notin st.known_refdes
    THEN AddErr(st, i, "set_value_refdes_unknown")
    ELSE LET part_id == IF cmd.args.refdes \in st.newly_added_refdes
                        THEN Some(st.refdes_to_part_id[cmd.args.refdes])
                        ELSE IF cmd.args.refdes \in DOMAIN st.snapshot_components
                        THEN st.snapshot_components[cmd.args.refdes].part_id
                        ELSE None
         IN  IF part_id # None /\ part_id[1] # "" /\ part_id[1] \in DOMAIN catalog
             THEN IF ~EntrySetValue(catalog[part_id[1]])
                  THEN AddErr(st, i, "set_value_not_allowed")
                  ELSE st
             ELSE st

\* place_component branch (lines 267-271)
ValidatePlaceComponent(st, i, cmd) ==
    IF cmd.args.refdes \notin st.known_refdes
    THEN AddErr(st, i, "place_component_refdes_unknown")
    ELSE st

\* place_near branch (lines 276-284)
ValidatePlaceNear(st, i, cmd) ==
    LET s1 == IF cmd.args.refdes \notin st.known_refdes
              THEN AddErr(st, i, "place_near_refdes_unknown")
              ELSE st
    IN  IF cmd.args.anchor_refdes \notin st.known_refdes
        THEN AddErr(s1, i, "place_near_anchor_unknown")
        ELSE s1

\* Body of the loop of validate_commands for command i (0-based index i).
ValidateStep(st, i, cmd, catalog, snap) ==
    CASE cmd.op = "add_component" -> ValidateAddComponent(st, i, cmd, catalog)
      [] cmd.op = "remove_component" -> ValidateRemoveComponent(st, i, cmd)
      [] cmd.op = "create_net" -> ValidateCreateNet(st, i, cmd)
      [] cmd.op = "rename_net" -> ValidateRenameNet(st, i, cmd)
      [] cmd.op = "connect" -> ValidateConnect(st, i, cmd, catalog)
      [] cmd.op = "disconnect" -> ValidateDisconnect(st, i, cmd, catalog, snap)
      [] cmd.op = "set_value" -> ValidateSetValue(st, i, cmd, catalog)
      [] cmd.op = "place_component" -> ValidatePlaceComponent(st, i, cmd)
      [] cmd.op = "place_near" -> ValidatePlaceNear(st, i, cmd)
      [] OTHER -> st

\* State of the loop after the first n commands; an exception ends the loop.
RECURSIVE ValidateLoop(_, _, _, _)
ValidateLoop(doc, catalog, snap, n) ==
    IF n = 0 THEN ValidateInit(catalog, snap)
    ELSE LET st == ValidateLoop(doc, catalog, snap, n - 1)
         IN  IF st.raised THEN st
             ELSE ValidateStep(st, n - 1, doc[n], catalog, snap)

\* validate_commands(doc, parts_by_id, snapshot): ValidationResult, or
\* raised = TRUE when an exception escapes.
validate_commands(doc, catalog, snap) ==
    LET st == ValidateLoop(doc, catalog, snap, Len(doc))
    IN  IF st.raised
        THEN [raised |-> TRUE, ok |-> FALSE, errors |-> <<>>, warnings |-> <<>>]
        ELSE [raised |-> FALSE, ok |-> st.errors = <<>>,
              errors |-> st.errors, warnings |-> st.warnings]

-----------------------------------------------------------------------------
(* layout/placer.py *)

\* d.get(key): Optional value of a dict entry
Get(d, key) == IF key \in DOMAIN d THEN Some(d[key]) ELSE None

\* Rounding of the quotient n / d that sends a tie upwards
RoundDiv_HalfUp(n, d) ==
    LET q == n \div d
        r == n % d
    IN  IF 2 * r < d THEN q ELSE q + 1

\* Python round() of the quotient n / d (d > 0): nearest integer, a tie goes
\* to the even neighbour.
RoundDiv(n, d) ==
    LET q == n \div d
        r == n % d
    IN  IF 2 * r < d THEN q
        ELSE IF 2 * r > d THEN q + 1
        ELSE IF q % 2 = 0 THEN q ELSE q + 1

Rect(x, y, w, h) == [x |-> x, y |-> y, w |-> w, h |-> h]

\* Rect.intersects (lines 20-27)
Intersects(a, b) ==
    ~(\/ a.x + a.w <= b.x
      \/ b.x + b.w <= a.x
      \/ a.y + a.h <= b.y
      \/ b.y + b.h <= a.y)

\* GridPlacer.__init__ defaults (lines 61-80)
GridPlacer(grid_step, margin, sheet_max_x, wrap_y_step) ==
    [grid_step |-> grid_step, margin |-> margin,
     sheet_max_x |-> sheet_max_x, wrap_y_step |-> wrap_y_step]

\* GridPlacer.estimate_size_cells (lines 82-107); kind already lower-cased
estimate_size_cells(part_id, kind) ==
    IF kind \in {"resistor", "capacitor"} THEN <<3, 1>>
    ELSE IF kind \in {"ic", "microcontroller", "mcu"} THEN <<6, 4>>
    ELSE IF kind = "connector" THEN <<6, 2>>
    ELSE IF kind \in {"diode", "transistor", "mosfet", "bjt"} THEN <<3, 2>>
    ELSE <<3, 2>>

\* Rectangle of one snapshot component in build_occupied (lines 125-149);
\* None when the dumped component has no top-level x or y.
OccupiedRect(self, comp) ==
    LET x == Get(comp.extra, "x")
        y == Get(comp.extra, "y")
        width == Get(comp.extra, "width")
        height == Get(comp.extra, "height")
        kind == IF Get(comp.extra, "kind") = None THEN "unknown" ELSE comp.extra["kind"]
        cells == estimate_size_cells("", kind)
        w == IF width = None \/ height = None THEN cells[1] * self.grid_step ELSE width[1]
        h == IF width = None \/ height = None THEN cells[2] * self.grid_step ELSE height[1]
    IN  IF x = None \/ y = None THEN None
        ELSE Some(Rect(x[1] - self.margin, y[1] - self.margin,
                       w + 2 * self.margin, h + 2 * self.margin))

RECURSIVE BuildOccupiedLoop(_, _, _, _)
BuildOccupiedLoop(self, comps, i, occupied) ==
    IF i > Len(comps) THEN occupied
    ELSE BuildOccupiedLoop(self, comps, i + 1, occupied \o OccupiedRect(self, comps[i]))

\* GridPlacer.build_occupied (lines 109-151); snap is the dumped snapshot
build_occupied(self, snap) ==
    IF snap = None THEN <<>>
    ELSE BuildOccupiedLoop(self, snap[1].components, 1, <<>>)

\* GridPlacer.snap_to_grid (lines 153-158)
snap_to_grid(self, x, y) ==
    <<RoundDiv(x, self.grid_step) * self.grid_step,
      RoundDiv(y, self.grid_step) * self.grid_step>>

max_attempts == 1000

\* Collides that tests the first occupied rectangle only
Collides_FirstOnly(occupied, test_rect) ==
    occupied # <<>> /\ Intersects(test_rect, occupied[1])

\* any(test_rect.intersects(occ) for occ in occupied) (line 197)
Collides(occupied, test_rect) ==
    \E k \in 1..Len(occupied) : Intersects(test_rect, occupied[k])

\* Position tested by the while loop of find_free_slot (lines 192-211) at
\* attempts = n: x advances by grid_step along a row and returns to start_x,
\* one wrap_y_step further, as soon as x + width would exceed sheet_max_x,
\* so every row holds the same number of positions.
ScanPosition(self, start_x, start_y, width, n) ==
    LET room == self.sheet_max_x - width - start_x
        per_row == IF room < self.grid_step THEN 1 ELSE (room \div self.grid_step) + 1
    IN  <<start_x + (n % per_row) * self.grid_step,
          start_y + (n \div per_row) * self.wrap_y_step>>

\* not collides at attempts = n (lines 194-199)
FreeAt(self, occupied, start_x, start_y, width, height, n) ==
    LET p == ScanPosition(self, start_x, start_y, width, n)
    IN  ~Collides(occupied, Rect(p[1], p[2], width, height))

\* GridPlacer.find_free_slot (lines 160-215): the first free position of the
\* scan, or the snapped origin when max_attempts positions collide.
find_free_slot(self, occupied, preferred_origin, size) ==
    LET width == size[1] * self.grid_step
        height == size[2] * self.grid_step
        start == snap_to_grid(self, preferred_origin[1], preferred_origin[2])
        Free(n) == FreeAt(self, occupied, start[1], start[2], width, height, n)
    IN  IF \E n \in 0..(max_attempts - 1) : Free(n)
        THEN ScanPosition(self, start[1], start[2], width,
                          CHOOSE n \in 0..(max_attempts - 1) :
                              Free(n) /\ \A m \in 0..(n - 1) : ~Free(m))
        ELSE <<start[1], start[2]>>

\* clamp_rotation without the final reduction modulo 360
clamp_rotation_NoWrap(rotation) == RoundDiv(rotation % 360, 90) * 90

\* GridPlacer.clamp_rotation (lines 217-224)
clamp_rotation(rotation) == (RoundDiv(rotation % 360, 90) * 90) % 360

\* PartToPlace (lines 39-50) with its defaults
PartToPlace(refdes, part_id, kind) ==
    [refdes |-> refdes, part_id |-> part_id, kind |-> kind,
     anchor_refdes |-> None, dx |-> 0, dy |-> 0, rotation |-> 0,
     width |-> None, height |-> None]

Placement(x, y, rotation, layer) == [x |-> x, y |-> y, rotation |-> rotation, layer |-> layer]

\* existing_positions built by place_all (lines 245-252)
RECURSIVE ExistingPositionsLoop(_, _, _)
ExistingPositionsLoop(comps, i, acc) ==
    IF i > Len(comps) THEN acc
    ELSE LET x == Get(comps[i].extra, "x")
             y == Get(comps[i].extra, "y")
         IN  ExistingPositionsLoop(comps, i + 1,
                 IF comps[i].refdes # "" /\ x # None /\ y # None
                 THEN DictSet(acc, comps[i].refdes, <<x[1], y[1]>>)
                 ELSE acc)

RECURSIVE MaxRight(_, _)
MaxRight(occupied, i) ==
    IF i > Len(occupied) THEN 0
    ELSE LET rest == MaxRight(occupied, i + 1)
             edge == occupied[i].x + occupied[i].w
         IN  IF i = Len(occupied) \/ edge > rest THEN edge ELSE rest

\* PlaceOne that records the placement but commits neither the rectangle
\* to the occupied list nor the point to the anchor lookup
PlaceOne_NoCommit(self, st, part, base_x, base_y) ==
    LET size == IF part.width # None /\ part.height # None
                   /\ part.width[1] # 0 /\ part.height[1] # 0
                THEN <<part.width[1] \div self.grid_step, part.height[1] \div self.grid_step>>
                ELSE estimate_size_cells(part.part_id, part.kind)
        anchored == /\ part.anchor_refdes # None
                    /\ part.anchor_refdes[1] # ""
                    /\ part.anchor_refdes[1] \in DOMAIN st.existing_positions
        preferred == IF anchored
                     THEN <<st.existing_positions[part.anchor_refdes[1]][1] + part.dx * self.grid_step,
                            st.existing_positions[part.anchor_refdes[1]][2] + part.dy * self.grid_step>>
                     ELSE <<base_x, base_y>>
        slot == find_free_slot(self, st.occupied, preferred, size)
    IN  [st EXCEPT !.placements = DictSet(st.placements, part.refdes,
                                          Placement(slot[1], slot[2], clamp_rotation(part.rotation), "Top"))]

\* Body of the loop of place_all for one part (lines 267-313)
PlaceOne(self, st, part, base_x, base_y) ==
    LET size == IF part.width # None /\ part.height # None
                   /\ part.width[1] # 0 /\ part.height[1] # 0
                THEN <<part.width[1] \div self.grid_step, part.height[1] \div self.grid_step>>
                ELSE estimate_size_cells(part.part_id, part.kind)
        anchored == /\ part.anchor_refdes # None
                    /\ part.anchor_refdes[1] # ""
                    /\ part.anchor_refdes[1] \in DOMAIN st.existing_positions
        preferred == IF anchored
                     THEN <<st.existing_positions[part.anchor_refdes[1]][1] + part.dx * self.grid_step,
                            st.existing_positions[part.anchor_refdes[1]][2] + part.dy * self.grid_step>>
                     ELSE <<base_x, base_y>>
        slot == find_free_slot(self, st.occupied, preferred, size)
        rotation == clamp_rotation(part.rotation)
    IN  [placements |-> DictSet(st.placements, part.refdes,
                                Placement(slot[1], slot[2], rotation, "Top")),
         occupied |-> Append(st.occupied,
                             Rect(slot[1] - self.margin, slot[2] - self.margin,
                                  size[1] * self.grid_step + 2 * self.margin,
                                  size[2] * self.grid_step + 2 * self.margin)),
         existing_positions |-> DictSet(st.existing_positions, part.refdes, <<slot[1], slot[2]>>)]

RECURSIVE PlaceAllLoop(_, _, _, _, _, _)
PlaceAllLoop(self, new_parts, i, st, base_x, base_y) ==
    IF i > Len(new_parts) THEN st
    ELSE PlaceAllLoop(self, new_parts, i + 1,
                      PlaceOne(self, st, new_parts[i], base_x, base_y), base_x, base_y)

\* place_all of a placer that remembers how many calls it has served and
\* shifts the default column by one grid step per earlier call
place_all_Remembers(self, new_parts, snap) ==
    LET occupied == build_occupied(self, snap)
        existing_positions == IF snap = None THEN EmptyDict
                              ELSE ExistingPositionsLoop(snap[1].components, 1, EmptyDict)
        max_x == IF occupied # <<>> THEN MaxRight(occupied, 1) ELSE 0
        column_gap == (6 + Len(calls)) * self.grid_step
    IN  PlaceAllLoop(self, new_parts, 1,
                     [placements |-> EmptyDict, occupied |-> occupied,
                      existing_positions |-> existing_positions],
                     max_x + column_gap, 0).placements

\* GridPlacer.place_all (lines 226-315): refdes -> Placement
place_all(self, new_parts, snap) ==
    LET occupied == build_occupied(self, snap)
        existing_positions == IF snap = None THEN EmptyDict
                              ELSE ExistingPositionsLoop(snap[1].components, 1, EmptyDict)
        max_x == IF occupied # <<>> THEN MaxRight(occupied, 1) ELSE 0
        column_gap == 6 * self.grid_step
    IN  PlaceAllLoop(self, new_parts, 1,
                     [placements |-> EmptyDict, occupied |-> occupied,
                      existing_positions |-> existing_positions],
                     max_x + column_gap, 0).placements

-----------------------------------------------------------------------------
(* compile/placement.py *)

\* Part built by auto_place for one refdes (lines 52-69)
AutoPlacePart(refdes, snap) ==
    LET hits == IF snap = None THEN {}
                ELSE {k \in 1..Len(snap[1].components) : snap[1].components[k].refdes = refdes}
        comp == snap[1].components[CHOOSE k \in hits : \A j \in hits : k <= j]
        part_id == IF hits = {} \/ comp.part_id = None \/ comp.part_id = Some("")
                   THEN refdes ELSE comp.part_id[1]
        kind == IF hits = {} \/ Get(comp.extra, "kind") = None
                THEN "unknown" ELSE comp.extra["kind"]
    IN  PartToPlace(refdes, part_id, kind)

RECURSIVE PartsToPlace(_, _, _, _)
PartsToPlace(refdes_list, existing_placements, snap, i) ==
    IF i > Len(refdes_list) THEN <<>>
    ELSE IF refdes_list[i] \in DOMAIN existing_placements
    THEN PartsToPlace(refdes_list, existing_placements, snap, i + 1)
    ELSE <<AutoPlacePart(refdes_list[i], snap)>>
         \o PartsToPlace(refdes_list, existing_placements, snap, i + 1)

\* auto_place (lines 10-84) with its default grid_step, margin, sheet_max_x
auto_place(refdes_list, catalog_parts, existing_placements, snap) ==
    place_all(GridPlacer(10, 5, 500, 50),
              PartsToPlace(refdes_list, existing_placements, snap, 1), snap)

\* place_near (lines 87-112)
place_near(anchor, dx, dy, rotation, layer) ==
    Placement(anchor.x + dx, anchor.y + dy, rotation, layer)

-----------------------------------------------------------------------------
(* compile/compiler.py *)

\* normalize_net_name (lines 37-56)
RECURSIVE NormalizeLoop(_, _, _)
NormalizeLoop(current, net_alias, visited) ==
    IF current \in DOMAIN net_alias /\ current \notin visited
    THEN NormalizeLoop(net_alias[current], net_alias, visited \cup {current})
    ELSE current

normalize_net_name(name, net_alias) == NormalizeLoop(name, net_alias, {})

\* existing_placements (lines 111-115)
RECURSIVE ExistingPlacementsLoop(_, _, _)
ExistingPlacementsLoop(comps, i, acc) ==
    IF i > Len(comps) THEN acc
    ELSE ExistingPlacementsLoop(comps, i + 1,
             IF comps[i].placement # None
             THEN DictSet(acc, comps[i].refdes, comps[i].placement[1])
             ELSE acc)

ExistingPlacements(snap) ==
    IF snap = None THEN EmptyDict ELSE ExistingPlacementsLoop(snap[1].components, 1, EmptyDict)

\* State before the first pass (lines 94-121)
CollectInit(snap) ==
    [new_components |-> EmptyDict,
     new_refdes_list |-> <<>>,
     explicit_placements |-> EmptyDict,
     existing_placements |-> ExistingPlacements(snap),
     net_alias |-> EmptyDict,
     components_to_remove |-> <<>>,
     warnings |-> <<>>]

\* place_near command in the first pass (lines 142-165)
CollectPlaceNear(st, cmd) ==
    IF cmd.args.anchor_refdes \in DOMAIN st.explicit_placements
    THEN [st EXCEPT !.explicit_placements =
              DictSet(@, cmd.args.refdes,
                      place_near(st.explicit_placements[cmd.args.anchor_refdes],
                                 cmd.args.dx, cmd.args.dy, cmd.args.rotation, cmd.args.layer))]
    ELSE IF cmd.args.anchor_refdes \in DOMAIN st.existing_placements
    THEN [st EXCEPT !.explicit_placements =
              DictSet(@, cmd.args.refdes,
                      place_near(st.existing_placements[cmd.args.anchor_refdes],
                                 cmd.args.dx, cmd.args.dy, cmd.args.rotation, cmd.args.layer))]
    ELSE [st EXCEPT !.warnings = Append(@, Err(-1, "place_near_anchor_unplaced"))]

\* Body of the first pass for one command (lines 126-168)
CollectStep(st, cmd) ==
    CASE cmd.op = "add_component" ->
            [st EXCEPT !.new_components = DictSet(@, cmd.args.refdes, cmd.args.part_id),
                       !.new_refdes_list = IF cmd.args.refdes \in DOMAIN st.new_components
                                           THEN @ ELSE Append(@, cmd.args.refdes)]
      [] cmd.op = "rename_net" ->
            [st EXCEPT !.net_alias = DictSet(@, cmd.args.from, cmd.args.to)]
      [] cmd.op = "place_component" ->
            [st EXCEPT !.explicit_placements =
                 DictSet(@, cmd.args.refdes,
                         Placement(cmd.args.x, cmd.args.y, cmd.args.rotation, cmd.args.layer))]
      [] cmd.op = "place_near" -> CollectPlaceNear(st, cmd)
      [] cmd.op = "remove_component" ->
            [st EXCEPT !.components_to_remove = Append(@, cmd.args.refdes)]
      [] OTHER -> st

RECURSIVE CollectLoop(_, _, _)
CollectLoop(doc, snap, n) ==
    IF n = 0 THEN CollectInit(snap)
    ELSE CollectStep(CollectLoop(doc, snap, n - 1), doc[n])

\* A) RENAME_NET actions (lines 178-182)
RECURSIVE RenameActions(_, _)
RenameActions(doc, i) ==
    IF i > Len(doc) THEN <<>>
    ELSE (IF doc[i].op = "rename_net"
          THEN <<[type |-> "RENAME_NET", from |-> doc[i].args.from, to |-> doc[i].args.to]>>
          ELSE <<>>) \o RenameActions(doc, i + 1)

\* B) ADD action of one add_component, or a warning (lines 189-203)
AddActionFor(cmd, catalog_parts) ==
    IF cmd.args.part_id \notin DOMAIN catalog_parts
    THEN [actions |-> <<>>, warnings |-> <<Err(-1, "part_not_found_during_compilation")>>]
    ELSE LET fusion_cmd == catalog_parts[cmd.args.part_id].fusion_add
         IN  IF fusion_cmd.t # "str" \/ fusion_cmd.v = ""
             THEN [actions |-> <<>>, warnings |-> <<Err(-1, "part_missing_fusion_add")>>]
             ELSE [actions |-> <<[type |-> "ADD", cmd |-> fusion_cmd.v, refdes |-> cmd.args.refdes]>>,
                   warnings |-> <<>>]

RECURSIVE AddActions(_, _, _)
AddActions(doc, catalog_parts, i) ==
    IF i > Len(doc) THEN [actions |-> <<>>, warnings |-> <<>>]
    ELSE LET rest == AddActions(doc, catalog_parts, i + 1)
             this == IF doc[i].op = "add_component"
                     THEN AddActionFor(doc[i], catalog_parts)
                     ELSE [actions |-> <<>>, warnings |-> <<>>]
         IN  [actions |-> this.actions \o rest.actions,
              warnings |-> this.warnings \o rest.warnings]

\* C) SET_VALUE actions (lines 208-213)
RECURSIVE SetValueActions(_, _)
SetValueActions(doc, i) ==
    IF i > Len(doc) THEN <<>>
    ELSE (IF doc[i].op = "set_value"
          THEN <<[type |-> "SET_VALUE", refdes |-> doc[i].args.refdes, value |-> doc[i].args.value]>>
          ELSE <<>>) \o SetValueActions(doc, i + 1)

\* AllPlacements in which the placer is asked for every added component and
\* its answer overrides the explicit placements
AllPlacements_AutoWins(st, catalog_parts, snap) ==
    LET merged == [r \in DOMAIN st.existing_placements \cup DOMAIN st.explicit_placements |->
                     IF r \in DOMAIN st.explicit_placements
                     THEN st.explicit_placements[r] ELSE st.existing_placements[r]]
        auto_placements == auto_place(st.new_refdes_list, catalog_parts, EmptyDict, snap)
    IN  [r \in DOMAIN merged \cup DOMAIN auto_placements |->
            IF r \in DOMAIN auto_placements THEN auto_placements[r] ELSE merged[r]]

\* D) all_placements after auto placement (lines 219-231)
AllPlacements(st, catalog_parts, snap) ==
    LET merged == [r \in DOMAIN st.existing_placements \cup DOMAIN st.explicit_placements |->
                     IF r \in DOMAIN st.explicit_placements
                     THEN st.explicit_placements[r] ELSE st.existing_placements[r]]
        auto_placements == auto_place(st.new_refdes_list, catalog_parts, merged, snap)
    IN  [r \in DOMAIN merged \cup DOMAIN auto_placements |->
            IF r \in DOMAIN auto_placements THEN auto_placements[r] ELSE merged[r]]

\* D) PLACE actions for the newly added components (lines 234-243)
RECURSIVE PlaceActions(_, _, _)
PlaceActions(new_refdes_list, all_placements, i) ==
    IF i > Len(new_refdes_list) THEN <<>>
    ELSE (IF new_refdes_list[i] \in DOMAIN all_placements
          THEN LET placement == all_placements[new_refdes_list[i]]
               IN  <<[type |-> "PLACE", refdes |-> new_refdes_list[i],
                      x |-> placement.x, y |-> placement.y,
                      rotation |-> placement.rotation, layer |-> placement.layer]>>
          ELSE <<>>) \o PlaceActions(new_refdes_list, all_placements, i + 1)

\* E) CONNECT / DISCONNECT actions (lines 248-265)
RECURSIVE ConnectivityActions(_, _, _)
ConnectivityActions(doc, net_alias, i) ==
    IF i > Len(doc) THEN <<>>
    ELSE (IF doc[i].op = "connect"
          THEN <<[type |-> "CONNECT", refdes |-> doc[i].args.refdes, pin |-> doc[i].args.pin,
                  net_name |-> normalize_net_name(doc[i].args.net_name, net_alias)]>>
          ELSE IF doc[i].op = "disconnect"
          THEN <<[type |-> "DISCONNECT", refdes |-> doc[i].args.refdes, pin |-> doc[i].args.pin,
                  net_name |-> normalize_net_name(doc[i].args.net_name, net_alias)]>>
          ELSE <<>>) \o ConnectivityActions(doc, net_alias, i + 1)

\* F) REMOVE actions (lines 270-274)
RECURSIVE RemoveActions(_, _)
RemoveActions(doc, i) ==
    IF i > Len(doc) THEN <<>>
    ELSE (IF doc[i].op = "remove_component"
          THEN <<[type |-> "REMOVE", refdes |-> doc[i].args.refdes]>>
          ELSE <<>>) \o RemoveActions(doc, i + 1)

\* BuildActions with the REMOVE phase emitted before the connectivity phase
BuildActions_RemoveEarly(doc, catalog_parts, snap, st) ==
    RenameActions(doc, 1)
    \o AddActions(doc, catalog_parts, 1).actions
    \o SetValueActions(doc, 1)
    \o PlaceActions(st.new_refdes_list, AllPlacements(st, catalog_parts, snap), 1)
    \o RemoveActions(doc, 1)
    \o ConnectivityActions(doc, st.net_alias, 1)

\* STEP 4: the action list in emission order (lines 173-274)
BuildActions(doc, catalog_parts, snap, st) ==
    RenameActions(doc, 1)
    \o AddActions(doc, catalog_parts, 1).actions
    \o SetValueActions(doc, 1)
    \o PlaceActions(st.new_refdes_list, AllPlacements(st, catalog_parts, snap), 1)
    \o ConnectivityActions(doc, st.net_alias, 1)
    \o RemoveActions(doc, 1)

\* ValidationGate letting a single error through
ValidationGate_OneErrorPasses(validation_result) ==
    IF validation_result.raised THEN "AttributeError"
    ELSE IF Len(validation_result.errors) > 1 THEN "ValueError"
    ELSE "ok"

\* STEP 1 (lines 83-89): the outcome decided by the validation result
ValidationGate(validation_result) ==
    IF validation_result.raised THEN "AttributeError"
    ELSE IF ~validation_result.ok THEN "ValueError"
    ELSE "ok"

\* compile_to_actions (lines 59-281): status "ok" with (ActionsDoc, warnings),
\* "ValueError" carrying the formatted validation result, or the exception
\* that escaped validate_commands.
compile_to_actions(doc, catalog_parts, snap) ==
    LET validation_result == validate_commands(doc, catalog_parts, snap)
        gate == ValidationGate(validation_result)
        st == CollectLoop(doc, snap, Len(doc))
    IN  IF gate # "ok"
        THEN [status |-> gate, actions |-> <<>>, warnings |-> <<>>,
              errors |-> validation_result.errors]
        ELSE [status |-> "ok",
              actions |-> BuildActions(doc, catalog_parts, snap, st),
              warnings |-> validation_result.warnings \o st.warnings
                           \o AddActions(doc, catalog_parts, 1).warnings,
              errors |-> <<>>]

-----------------------------------------------------------------------------
(* Inputs: catalogs, snapshots and commands the caller may supply *)

MaxCmds == 3

Entry(catalog_id, fusion_add, pins, set_value) ==
    [is_dict |-> TRUE, catalog_id |-> catalog_id, fusion_add |-> fusion_add,
     pins |-> pins, set_value |-> set_value]

\* resistor with two pins, value settable
PartP1 == [id |-> "P1", entry |-> Entry(Str("P1"), Str("ADD P1"), List(<<"1", "2">>), Bool(TRUE))]
\* part whose fusion_add is the empty string
PartP2 == [id |-> "P2", entry |-> Entry(Str("P2"), Str(""), List(<<"1">>), Bool(FALSE))]
\* part without fusion_add
PartP3 == [id |-> "P3", entry |-> Entry(Absent, Absent, List(<<"1">>), Absent)]

Cmd(op, args) == [op |-> op, args |-> args]
AddComponent(part_id, refdes) == Cmd("add_component", [part_id |-> part_id, refdes |-> refdes])
RemoveComponent(refdes) == Cmd("remove_component", [refdes |-> refdes])
CreateNet(net_name) == Cmd("create_net", [net_name |-> net_name])
RenameNet(from, to) == Cmd("rename_net", [from |-> from, to |-> to])
Connect(refdes, pin, net_name) ==
    Cmd("connect", [refdes |-> refdes, pin |-> pin, net_name |-> net_name])
Disconnect(refdes, pin, net_name) ==
    Cmd("disconnect", [refdes |-> refdes, pin |-> pin, net_name |-> net_name])
SetValue(refdes, value) == Cmd("set_value", [refdes |-> refdes, value |-> value])
PlaceComponent(refdes, x, y, rotation, layer) ==
    Cmd("place_component", [refdes |-> refdes, x |-> x, y |-> y,
                            rotation |-> rotation, layer |-> layer])
PlaceNear(refdes, anchor_refdes, dx, dy, rotation, layer) ==
    Cmd("place_near", [refdes |-> refdes, anchor_refdes |-> anchor_refdes, dx |-> dx,
                       dy |-> dy, rotation |-> rotation, layer |-> layer])
Comment(text) == Cmd("comment", [text |-> text])

Component(refdes, part_id, pins, placement) ==
    [refdes |-> refdes, part_id |-> part_id, pins |-> pins,
     placement |-> placement, extra |-> EmptyDict]
Net(net_name, connections) == [net_name |-> net_name, connections |-> connections]

\* R1 (a P1 with pins and a placement) connected to net A; net B unconnected
SnapshotR1 ==
    [components |-> <<Component("R1", Some("P1"), <<"1", "2">>, Some(Placement(0, 0, 0, "Top")))>>,
     nets |-> <<Net("A", <<[refdes |-> "R1", pin |-> "1"]>>), Net("B", <<>>)>>]

\* R1 without nets
SnapshotNoNets ==
    [components |-> <<Component("R1", Some("P1"), <<"1", "2">>, None)>>,
     nets |-> <<>>]

GeneralCmds ==
    { AddComponent("P1", "R2"), AddComponent("P2", "R3"),
      SetValue("R2", "120"),
      PlaceComponent("R2", 100, 100, 90, "Top"),
      PlaceNear("R3", "R1", 10, 0, 0, "Bottom"),
      Connect("R2", "1", "A"), Connect("R3", "1", "B"),
      Disconnect("R1", "1", "A"),
      RenameNet("A", "C"),
      CreateNet("C"),
      RemoveComponent("R1"),
      Comment("note") }

NetNames == {"A", "B", "C"}

NetCmds ==
    { RenameNet(ft[1], ft[2]) : ft \in {p \in NetNames \X NetNames : p[1] # p[2]} }
    \cup { CreateNet("C"), CreateNet("A") }
    \cup { Connect("R1", "1", n) : n \in NetNames }
    \cup { Disconnect("R1", "1", "A") }

ValidateCmds ==
    { AddComponent("P1", "R2"), AddComponent("PX", "R2"), AddComponent("P1", "R1"),
      Connect("R2", "1", "A"), Connect("R2", "9", "A"), Connect("R1", "9", "A"),
      Disconnect("R2", "1", "A"), Disconnect("R2", "9", "A"),
      Disconnect("R1", "1", "A"), Disconnect("R1", "9", "A"),
      SetValue("R2", "120"),
      RemoveComponent("R2"),
      PlaceComponent("R2", 100, 100, 0, "Top"),
      PlaceNear("R2", "R1", 1, 0, 0, "Top"), PlaceNear("R1", "R2", 1, 0, 0, "Top") }

-----------------------------------------------------------------------------
(* The caller: load the catalog, receive a Commands document, validate, compile *)

InitWith(catalogs, snapshots) ==
    /\ pc = "load"
    /\ raw_catalog \in catalogs
    /\ parts_by_id = EmptyDict
    /\ load_warnings = <<>>
    /\ snapshot \in snapshots
    /\ commands = <<>>
    /\ vres = None
    /\ cres = None
    /\ allowed_part_ids = {}
    /\ gres = None
    /\ placer = None
    /\ probe = [x |-> 0, y |-> 0, rotation |-> 0]
    /\ snapped = None
    /\ clamped = None
    /\ calls = <<>>
    /\ scan = None
    /\ norm = None

\* The caller indexes the loaded catalog with index_parts.
LoadCatalog ==
    /\ pc = "load"
    /\ LET r == index_parts(raw_catalog)
       IN  IF r.raised
           THEN /\ pc' = "load_failed"
                /\ UNCHANGED <<parts_by_id, load_warnings>>
           ELSE /\ pc' = "input"
                /\ parts_by_id' = r.parts_by_id
                /\ load_warnings' = r.warnings
    /\ UNCHANGED <<raw_catalog, snapshot, commands, vres, cres>>
    /\ UNCHANGED <<allowed_part_ids, gres, placer, probe, snapped, clamped, calls>>
    /\ UNCHANGED <<scan, norm>>

\* The command producer appends one command to the document.
AppendCommand(c) ==
    /\ pc = "input"
    /\ Len(commands) < MaxCmds
    /\ commands' = Append(commands, c)
    /\ UNCHANGED <<pc, raw_catalog, parts_by_id, load_warnings, snapshot, vres, cres>>
    /\ UNCHANGED <<allowed_part_ids, gres, placer, probe, snapped, clamped, calls>>
    /\ UNCHANGED <<scan, norm>>

\* The caller runs validate_commands on the document.
Validate ==
    /\ pc = "input"
    /\ vres' = Some(validate_commands(commands, parts_by_id, snapshot))
    /\ pc' = "validated"
    /\ UNCHANGED <<raw_catalog, parts_by_id, load_warnings, snapshot, commands, cres>>
    /\ UNCHANGED <<allowed_part_ids, gres, placer, probe, snapped, clamped, calls>>
    /\ UNCHANGED <<scan, norm>>

\* Compile by a compiler that writes the components it has placed into the
\* snapshot it was given
Compile_WritesSnapshot ==
    /\ pc \in {"input", "validated"}
    /\ cres' = Some(compile_to_actions(commands, parts_by_id, snapshot))
    /\ pc' = "compiled"
    /\ snapshot' =
          IF snapshot = None THEN None
          ELSE LET places == SelectSeq(cres'[1].actions, LAMBDA a : a.type = "PLACE")
               IN  Some([snapshot[1] EXCEPT !.components =
                           @ \o [k \in 1..Len(places) |->
                                    [refdes |-> places[k].refdes, part_id |-> None, pins |-> <<>>,
                                     placement |-> Some([x |-> places[k].x, y |-> places[k].y,
                                                         rotation |-> places[k].rotation,
                                                         layer |-> places[k].layer]),
                                     extra |-> EmptyDict]]])
    /\ UNCHANGED <<raw_catalog, parts_by_id, load_warnings, commands, vres>>
    /\ UNCHANGED <<allowed_part_ids, gres, placer, probe, snapped, clamped, calls>>
    /\ UNCHANGED <<scan, norm>>

\* The caller runs compile_to_actions on the document.
Compile ==
    /\ pc \in {"input", "validated"}
    /\ cres' = Some(compile_to_actions(commands, parts_by_id, snapshot))
    /\ pc' = "compiled"
    /\ UNCHANGED <<raw_catalog, parts_by_id, load_warnings, snapshot, commands, vres>>
    /\ UNCHANGED <<allowed_part_ids, gres, placer, probe, snapped, clamped, calls>>
    /\ UNCHANGED <<scan, norm>>

Init == InitWith({<<PartP1, PartP2>>, <<PartP1, PartP3>>}, {Some(SnapshotR1)})

Next ==
    \/ LoadCatalog
    \/ \E c \in GeneralCmds : AppendCommand(c)
    \/ Validate
    \/ Compile

Spec == Init /\ [][Next]_vars

InitNets == InitWith({<<PartP1>>}, {Some(SnapshotR1), Some(SnapshotNoNets)})

NextNets ==
    \/ LoadCatalog
    \/ \E c \in NetCmds : AppendCommand(c)
    \/ Validate
    \/ Compile

SpecNets == InitNets /\ [][NextNets]_vars

InitValidate == InitWith({<<PartP1>>}, {None, Some(SnapshotR1)})

NextValidate ==
    \/ LoadCatalog
    \/ \E c \in ValidateCmds : AppendCommand(c)
    \/ Validate

SpecValidate == InitValidate /\ [][NextValidate]_vars

-----------------------------------------------------------------------------
(* Properties of the compiled action list *)

Compiled == pc = "compiled"
Accepted == pc = "compiled" /\ cres[1].status = "ok"

SnapshotRefdes ==
    IF snapshot = None THEN {}
    ELSE {snapshot[1].components[k].refdes : k \in 1..Len(snapshot[1].components)}

SnapshotNets ==
    IF snapshot = None THEN {}
    ELSE {snapshot[1].nets[k].net_name : k \in 1..Len(snapshot[1].nets)}

PhaseRank(type) ==
    CASE type = "RENAME_NET" -> 1
      [] type = "ADD" -> 2
      [] type = "SET_VALUE" -> 3
      [] type = "PLACE" -> 4
      [] type \in {"CONNECT", "DISCONNECT"} -> 5
      [] type = "REMOVE" -> 6

IsConnectivityCmd(c) == c.op \in {"connect", "disconnect"}
IsConnectivityAction(a) == a.type \in {"CONNECT", "DISCONNECT"}
ActionTypeOf(op) == IF op = "connect" THEN "CONNECT" ELSE "DISCONNECT"

\* C1: in the action list of every accepted document no action of a later
\* phase (RENAME_NET, ADD, SET_VALUE, PLACE, CONNECT/DISCONNECT, REMOVE)
\* precedes an action of an earlier phase, and the CONNECT/DISCONNECT actions
\* follow one another as the connect/disconnect commands do in the document.
C1_PhaseOrder ==
    Accepted =>
        LET a == cres[1].actions
            ca == SelectSeq(a, IsConnectivityAction)
            cd == SelectSeq(commands, IsConnectivityCmd)
        IN  /\ \A i \in 1..Len(a) : \A j \in 1..Len(a) :
                  i < j => PhaseRank(a[i].type) <= PhaseRank(a[j].type)
            /\ Len(ca) = Len(cd)
            /\ \A k \in 1..Len(ca) :
                  /\ ca[k].type = ActionTypeOf(cd[k].op)
                  /\ ca[k].refdes = cd[k].args.refdes
                  /\ ca[k].pin = cd[k].args.pin

\* An accepted document in which a remove_component textually precedes a
\* connect/disconnect, compiled to a list that also holds an ADD.
C1_Witness ==
    /\ Accepted
    /\ \E i \in 1..Len(commands) : \E j \in 1..Len(commands) :
          /\ i < j
          /\ commands[i].op = "remove_component"
          /\ IsConnectivityCmd(commands[j])
    /\ \E k \in 1..Len(cres[1].actions) : cres[1].actions[k].type = "ADD"

\* C2: replaying the action list of an accepted document, the refdes of every
\* SET_VALUE, PLACE, CONNECT, DISCONNECT and REMOVE is a snapshot component
\* or the refdes of an ADD at an earlier position.
C2_NoUseBeforeAdd ==
    Accepted =>
        LET a == cres[1].actions
        IN  \A k \in 1..Len(a) :
              a[k].type \in {"SET_VALUE", "PLACE", "CONNECT", "DISCONNECT", "REMOVE"} =>
                  \/ a[k].refdes \in SnapshotRefdes
                  \/ \E j \in 1..(k - 1) : a[j].type = "ADD" /\ a[j].refdes = a[k].refdes

\* C4: compile_to_actions returns actions exactly when validate_commands
\* reports zero errors on the same arguments; when it reports errors the
\* compiler raises ValueError carrying all of them and returns no action.
C4_AllOrNothing ==
    (Compiled /\ vres # None) =>
        LET v == vres[1]
            c == cres[1]
        IN  /\ (c.status = "ok") <=> (~v.raised /\ v.errors = <<>>)
            /\ (~v.raised /\ v.errors # <<>>) =>
                  (c.status = "ValueError" /\ c.errors = v.errors /\ c.actions = <<>>)
            /\ (c.status = "ok") => (c.errors = <<>>)

\* A document with two validation errors, validated and then compiled.
C4_Witness ==
    /\ Compiled
    /\ vres # None
    /\ Len(vres[1].errors) >= 2
    /\ cres[1].status = "ValueError"

\* A connect textually precedes the add_component of the same refdes.
ConnectBeforeOwnAdd ==
    \E i \in 1..Len(commands) : \E j \in 1..Len(commands) :
        /\ i < j
        /\ commands[i].op = "connect"
        /\ commands[j].op = "add_component"
        /\ commands[i].args.refdes = commands[j].args.refdes

IsAdd(c) == c.op = "add_component"
IsNotAdd(c) == c.op # "add_component"

\* The document is valid once its add_component commands are moved to the front.
OtherwiseValid ==
    validate_commands(SelectSeq(commands, IsAdd) \o SelectSeq(commands, IsNotAdd),
                      parts_by_id, snapshot).ok

AddsBeforeConnects ==
    LET a == cres[1].actions
    IN  \A i \in 1..Len(a) : \A j \in 1..Len(a) :
            (a[i].type = "CONNECT" /\ a[j].type = "ADD") => j < i

\* C5 as stated: an otherwise valid document whose connect textually precedes
\* the add_component of the same refdes is accepted, with ADD before CONNECT.
C5_Original ==
    (Compiled /\ ConnectBeforeOwnAdd /\ OtherwiseValid) =>
        (cres[1].status = "ok" /\ AddsBeforeConnects)

\* C5 amended: a document whose connect textually precedes the add_component
\* of the same refdes is never accepted (the compiler raises and returns no
\* action); in every accepted document each ADD precedes each CONNECT.
C5_Amended ==
    Compiled =>
        /\ ConnectBeforeOwnAdd => (cres[1].status # "ok" /\ cres[1].actions = <<>>)
        /\ cres[1].status = "ok" => AddsBeforeConnects

\* Such a document, valid but for the position of the connect, refused with ValueError.
C5_Witness ==
    /\ Compiled
    /\ ConnectBeforeOwnAdd
    /\ OtherwiseValid
    /\ cres[1].status = "ValueError"

-----------------------------------------------------------------------------
(* Nets: replay of the action list, resolution of renamed names *)

\* Nets existing after the first k actions have been replayed on the snapshot:
\* RENAME_NET renames a net, CONNECT creates a missing net.
RECURSIVE NetsAfter(_, _)
NetsAfter(a, k) ==
    IF k = 0 THEN SnapshotNets
    ELSE LET n == NetsAfter(a, k - 1)
         IN  IF a[k].type = "RENAME_NET" THEN (n \ {a[k].from}) \cup {a[k].to}
             ELSE IF a[k].type = "CONNECT" THEN n \cup {a[k].net_name}
             ELSE n

\* C3: replaying the action list of an accepted document, the `from` net of
\* every RENAME_NET exists when that action is replayed.
C3_RenameFromExists ==
    Accepted =>
        LET a == cres[1].actions
        IN  \A k \in 1..Len(a) :
              a[k].type = "RENAME_NET" => a[k].from \in NetsAfter(a, k - 1)

\* Name borne, after the rename_net commands i..Len(doc) have been applied in
\* document order, by the net that bears the name cur before command i.
RECURSIVE FollowRenames(_, _, _)
FollowRenames(doc, i, cur) ==
    IF i > Len(doc) THEN cur
    ELSE IF doc[i].op = "rename_net" /\ doc[i].args.from = cur
    THEN FollowRenames(doc, i + 1, doc[i].args.to)
    ELSE FollowRenames(doc, i + 1, cur)

\* Nets known when command i is reached, as the document is read in order.
RECURSIVE KnownNetsAt(_, _)
KnownNetsAt(doc, i) ==
    IF i = 1 THEN SnapshotNets
    ELSE LET n == KnownNetsAt(doc, i - 1)
             c == doc[i - 1]
         IN  IF c.op = "rename_net" /\ c.args.from \in n THEN (n \ {c.args.from}) \cup {c.args.to}
             ELSE IF c.op \in {"create_net", "connect"} THEN n \cup {c.args.net_name}
             ELSE n

\* Final names the net named by command i may bear. A name known at that
\* point is the net bearing it; a name that a rename_net before command i
\* renamed away is the renamed net. When the name was renamed away and is
\* borne again by another net, either reading is admitted.
FinalNetNames(doc, i) ==
    LET n == doc[i].args.net_name
        earlier == {j \in 1..(i - 1) : doc[j].op = "rename_net" /\ doc[j].args.from = n}
        renamed == FollowRenames(doc, CHOOSE j \in earlier : \A k \in earlier : k <= j, n)
        current == FollowRenames(doc, i + 1, n)
    IN  IF earlier = {} THEN {current}
        ELSE IF n \in KnownNetsAt(doc, i) THEN {current, renamed}
        ELSE {renamed}

\* C6: in the action list of an accepted document each CONNECT/DISCONNECT
\* carries the final name of the net its command refers to, also after a
\* rename and through a chain of renames.
C6_RenamesPropagate ==
    Accepted =>
        LET ca == SelectSeq(cres[1].actions, IsConnectivityAction)
            idx == {i \in 1..Len(commands) : IsConnectivityCmd(commands[i])}
        IN  \A i \in idx :
              LET k == Cardinality({j \in idx : j <= i})
              IN  k <= Len(ca) /\ ca[k].net_name \in FinalNetNames(commands, i)

-----------------------------------------------------------------------------
(* Properties of the validation result *)

Validated == pc = "validated"

ReportedAt(i) == {vres[1].errors[k].code : k \in {k \in 1..Len(vres[1].errors) : vres[1].errors[k].idx = i - 1}}

\* refdes known when command i is reached: snapshot components and the refdes
\* of the add_component commands before it
KnownRefdesAt(i) ==
    SnapshotRefdes \cup
    {commands[j].args.refdes : j \in {j \in 1..(i - 1) : commands[j].op = "add_component"}}

\* C7: validate_commands returns a result for every document; no exception escapes.
C7_NeverRaises == Validated => ~vres[1].raised

\* Part of a refdes added in the document before command i (its first add).
AddedPart(i, refdes) ==
    LET adds == {j \in 1..(i - 1) : commands[j].op = "add_component"
                                    /\ commands[j].args.refdes = refdes}
    IN  commands[CHOOSE j \in adds : \A k \in adds : j <= k].args.part_id

\* The pin of connect/disconnect command i lies outside the applicable pin
\* list: catalog pins of the part of a component added earlier, snapshot pins
\* of an existing component that reports pins.
PinOutside(i) ==
    LET refdes == commands[i].args.refdes
        pin == commands[i].args.pin
    IN  IF refdes \in SnapshotRefdes
        THEN LET pins == snapshot_component_map(snapshot[1])[refdes].pins
             IN  pins # <<>> /\ pin \notin SeqToSet(pins)
        ELSE /\ AddedPart(i, refdes) \in DOMAIN parts_by_id
             /\ pin \notin SeqToSet(EntryPins(parts_by_id[AddedPart(i, refdes)]))

PinCodes ==
    {"connect_pin_not_in_catalog", "connect_pin_not_in_snapshot",
     "disconnect_pin_not_in_catalog", "disconnect_pin_not_in_snapshot"}

\* C8: for every connect and disconnect on a known refdes, validate_commands
\* returns a result that holds a pin error for the command exactly when the
\* pin is outside the applicable pin list.
C8_PinRule ==
    Validated =>
        \A i \in 1..Len(commands) :
            (IsConnectivityCmd(commands[i]) /\ commands[i].args.refdes \in KnownRefdesAt(i)) =>
                /\ ~vres[1].raised
                /\ (ReportedAt(i) \cap PinCodes # {}) <=> PinOutside(i)

\* C9: validate_commands reports an error for every add_component whose part
\* is not in the catalog or whose refdes is a snapshot refdes or the refdes of
\* an earlier add_component, and none for any other add_component.
C9_AddRules ==
    Validated =>
        \A i \in 1..Len(commands) :
            commands[i].op = "add_component" =>
                LET bad == \/ commands[i].args.part_id \notin DOMAIN parts_by_id
                           \/ commands[i].args.refdes \in KnownRefdesAt(i)
                IN  /\ bad => (~vres[1].raised /\ ~vres[1].ok /\ ReportedAt(i) # {})
                    /\ ~bad => ReportedAt(i) = {}

RefdesOps ==
    {"remove_component", "place_component", "place_near", "connect", "disconnect", "set_value"}

UnknownCode(op) ==
    CASE op = "remove_component" -> "remove_refdes_unknown"
      [] op = "place_component" -> "place_component_refdes_unknown"
      [] op = "place_near" -> "place_near_refdes_unknown"
      [] op = "connect" -> "connect_refdes_unknown"
      [] op = "disconnect" -> "disconnect_refdes_unknown"
      [] op = "set_value" -> "set_value_refdes_unknown"

\* C10: validate_commands reports an error for every remove_component,
\* place_component, place_near, connect, disconnect and set_value whose refdes
\* is not known at that point of the document, and one more for a place_near
\* whose anchor_refdes is not known.
C10_UnknownRefdes ==
    Validated =>
        \A i \in 1..Len(commands) :
            /\ (commands[i].op \in RefdesOps /\ commands[i].args.refdes \notin KnownRefdesAt(i)) =>
                  (~vres[1].raised /\ ~vres[1].ok /\ UnknownCode(commands[i].op) \in ReportedAt(i))
            /\ (commands[i].op = "place_near"
                /\ commands[i].args.anchor_refdes \notin KnownRefdesAt(i)) =>
                  (~vres[1].raised /\ ~vres[1].ok /\ "place_near_anchor_unknown" \in ReportedAt(i))

-----------------------------------------------------------------------------
(* set_value against the catalog flag *)

\* part whose entry has no set_value key
PartP4 == [id |-> "P4", entry |-> Entry(Str("P4"), Str("ADD P4"), List(<<"1">>), Absent)]

\* Existing components of a catalogued settable part (R1), of a catalogued
\* part with set_value false (D1), without part_id (U1), and of a part that
\* is not in the catalog (U2).
SnapshotParts ==
    [components |-> <<Component("R1", Some("P1"), <<"1", "2">>, None),
                      Component("D1", Some("P2"), <<"1">>, None),
                      Component("U1", None, <<>>, None),
                      Component("U2", Some("PX"), <<>>, None)>>,
     nets |-> <<>>]

SetValueCmds ==
    { AddComponent("P1", "R2"), AddComponent("P2", "R3"), AddComponent("P4", "R4"),
      AddComponent("PX", "R6") }
    \cup { SetValue(r, "10k") : r \in {"R1", "D1", "U1", "U2", "R2", "R3", "R4", "R6"} }

InitSetValue == InitWith({<<PartP1, PartP2, PartP4>>}, {None, Some(SnapshotParts)})

NextSetValue ==
    \/ LoadCatalog
    \/ \E c \in SetValueCmds : AppendCommand(c)
    \/ Validate

SpecSetValue == InitSetValue /\ [][NextSetValue]_vars

\* Optional part_id of the part owning the refdes of command i: the part_id of
\* the snapshot component, or the part of the add_component before command i.
OwningPart(i) ==
    LET refdes == commands[i].args.refdes
    IN  IF refdes \in SnapshotRefdes
        THEN snapshot_component_map(snapshot[1])[refdes].part_id
        ELSE Some(AddedPart(i, refdes))

\* The part is in the catalog and its entry declares set_value = true.
DeclaresSetValue(p) ==
    /\ p # None
    /\ p[1] \in DOMAIN parts_by_id
    /\ parts_by_id[p[1]].set_value.t = "bool"
    /\ parts_by_id[p[1]].set_value.v

\* C11: for every set_value on a known refdes, validate_commands reports no
\* error for the command exactly when the catalog entry of the owning part
\* declares set_value = true; when the flag is false or absent, or the owning
\* part is not found in the catalog, it reports an error.
C11_SetValueRule ==
    Validated =>
        \A i \in 1..Len(commands) :
            (commands[i].op = "set_value" /\ commands[i].args.refdes \in KnownRefdesAt(i)) =>
                /\ ~vres[1].raised
                /\ (ReportedAt(i) = {}) <=> DeclaresSetValue(OwningPart(i))

-----------------------------------------------------------------------------
(* rename_net against the nets known so far *)

\* C12: validate_commands reports an error for every rename_net whose `from`
\* is not a net known at that point and for every rename_net whose `to` is a
\* known net other than `from`, and no other rename error; after a rename
\* whose `from` was known the old name is unknown and the new name known: a
\* rename_net from the old name that follows it is an error, and so is a
\* rename_net of another net to the new name.
C12_RenameRules ==
    Validated =>
        /\ ~vres[1].raised
        /\ \A i \in 1..Len(commands) :
              commands[i].op = "rename_net" =>
                  LET known == KnownNetsAt(commands, i)
                      a == commands[i].args
                  IN  /\ ("rename_from_unknown" \in ReportedAt(i)) <=> (a.from \notin known)
                      /\ ("rename_to_exists" \in ReportedAt(i)) <=> (a.to \in known /\ a.to # a.from)
                      /\ (ReportedAt(i) # {}) => ~vres[1].ok
                      /\ (i < Len(commands) /\ commands[i + 1].op = "rename_net"
                          /\ a.from \in known /\ a.from # a.to) =>
                            LET b == commands[i + 1].args
                            IN  /\ b.from = a.from => "rename_from_unknown" \in ReportedAt(i + 1)
                                /\ (b.to = a.to /\ b.from # b.to) =>
                                      "rename_to_exists" \in ReportedAt(i + 1)

\* A rename of a known net followed by a rename from the old name, refused,
\* in a document that also holds a rename to a name that is known.
C12_Witness ==
    /\ Validated
    /\ \E i \in 1..(Len(commands) - 1) :
          /\ commands[i].op = "rename_net"
          /\ commands[i].args.from \in KnownNetsAt(commands, i)
          /\ ReportedAt(i) = {}
          /\ commands[i + 1].op = "rename_net"
          /\ commands[i + 1].args.from = commands[i].args.from
          /\ ReportedAt(i + 1) = {"rename_from_unknown"}
    /\ \E k \in 1..Len(vres[1].errors) : vres[1].errors[k].code = "rename_to_exists"

-----------------------------------------------------------------------------
(* Conditions that add a warning and no error *)

WarnCmds ==
    { CreateNet("A"), CreateNet("C"),
      Connect("R1", "1", "A"), Connect("R1", "1", "C"), Connect("R1", "9", "C"),
      Connect("U1", "1", "A"), Connect("U1", "1", "C"),
      Disconnect("U1", "1", "A"), Disconnect("R1", "1", "A"),
      AddComponent("P1", "R2"), Connect("R2", "1", "C"),
      Connect("R9", "1", "C"),
      RenameNet("C", "A") }

InitWarn == InitWith({<<PartP1>>}, {Some(SnapshotR1), Some(SnapshotParts)})

NextWarn ==
    \/ LoadCatalog
    \/ \E c \in WarnCmds : AppendCommand(c)
    \/ Validate

SpecWarn == InitWarn /\ [][NextWarn]_vars

WarnedAt(i) == {vres[1].warnings[k].code : k \in {k \in 1..Len(vres[1].warnings) : vres[1].warnings[k].idx = i - 1}}

\* Command i is a connect/disconnect on a snapshot component without pins.
OnPinlessComponent(i) ==
    /\ IsConnectivityCmd(commands[i])
    /\ commands[i].args.refdes \in SnapshotRefdes
    /\ snapshot_component_map(snapshot[1])[commands[i].args.refdes].pins = <<>>

\* C13: validate_commands adds a warning and no error for a create_net of a
\* net already known, for the unknown net of a connect (the errors of such a
\* connect concern its refdes or pin only, and the net is known to the
\* commands after it: a later connect to it is not warned about, a later
\* create_net of it is), and for a connect/disconnect on a snapshot component
\* that reports no pins; a document with no other defect is ok.
C13_WarningsOnly ==
    Validated =>
        /\ ~vres[1].raised
        /\ \A i \in 1..Len(commands) :
              LET c == commands[i]
                  known == KnownNetsAt(commands, i)
              IN  /\ (c.op = "create_net" /\ c.args.net_name \in known) =>
                        (ReportedAt(i) = {} /\ "create_net_exists" \in WarnedAt(i))
                  /\ (c.op = "connect" /\ c.args.net_name \notin known) =>
                        /\ "connect_net_auto_created" \in WarnedAt(i)
                        /\ ReportedAt(i) \subseteq {"connect_refdes_unknown",
                                                    "connect_pin_not_in_catalog",
                                                    "connect_pin_not_in_snapshot"}
                  /\ (c.op = "connect" /\ c.args.net_name \in known) =>
                        "connect_net_auto_created" \notin WarnedAt(i)
                  /\ OnPinlessComponent(i) =>
                        (ReportedAt(i) = {} /\ (c.op \o "_pin_unchecked") \in WarnedAt(i))
        /\ (\A i \in 1..Len(commands) : ReportedAt(i) = {}) => vres[1].ok

\* A document accepted with the three warnings.
C13_Witness ==
    /\ Validated
    /\ vres[1].ok
    /\ {"create_net_exists", "connect_net_auto_created", "connect_pin_unchecked"}
          \subseteq {vres[1].warnings[k].code : k \in 1..Len(vres[1].warnings)}

-----------------------------------------------------------------------------
(* agent/guardrails.py *)

\* State of enforce_grounding before the loop (lines 46-59).
GroundInit(snap) ==
    LET snapshot_components == IF snap # None THEN snapshot_component_map(snap[1]) ELSE EmptyDict
    IN  [errors |-> <<>>,
         warnings |-> <<>>,
         snapshot_components |-> snapshot_components,
         newly_added_refdes |-> {},
         refdes_to_part_id |-> EmptyDict,
         known_refdes |-> DOMAIN snapshot_components]

\* GroundAddComponent that tests the part against the catalog
GroundAddComponent_CatalogOnly(st, i, cmd, allowed, catalog) ==
    LET s1 == IF cmd.args.part_id \notin DOMAIN catalog
              THEN AddErr(st, i, "add_part_not_allowed")
              ELSE st
        s2 == IF cmd.args.refdes \in DOMAIN st.snapshot_components
              THEN AddErr(s1, i, "add_refdes_exists_in_snapshot")
              ELSE s1
        s3 == IF cmd.args.refdes \in st.newly_added_refdes
              THEN AddErr(s2, i, "add_refdes_duplicates_earlier_add")
              ELSE s2
    IN  [s3 EXCEPT
            !.newly_added_refdes = @ \cup {cmd.args.refdes},
            !.known_refdes = @ \cup {cmd.args.refdes},
            !.refdes_to_part_id = DictSet(@, cmd.args.refdes, cmd.args.part_id)]

\* add_component branch (lines 67-92): three independent tests, then the
\* refdes is tracked whatever they found.
GroundAddComponent(st, i, cmd, allowed, catalog) ==
    LET s1 == IF cmd.args.part_id \notin allowed
              THEN AddErr(st, i, "add_part_not_allowed")
              ELSE st
        s2 == IF cmd.args.refdes \in DOMAIN st.snapshot_components
              THEN AddErr(s1, i, "add_refdes_exists_in_snapshot")
              ELSE s1
        s3 == IF cmd.args.refdes \in st.newly_added_refdes
              THEN AddErr(s2, i, "add_refdes_duplicates_earlier_add")
              ELSE s2
    IN  [s3 EXCEPT
            !.newly_added_refdes = @ \cup {cmd.args.refdes},
            !.known_refdes = @ \cup {cmd.args.refdes},
            !.refdes_to_part_id = DictSet(@, cmd.args.refdes, cmd.args.part_id)]

\* connect branch (lines 97-129) and disconnect branch (lines 134-161); which
\* is "connect" or "disconnect".
GroundPin(st, i, cmd, catalog, which) ==
    IF cmd.args.refdes \notin st.known_refdes THEN st
    ELSE IF cmd.args.refdes \in st.newly_added_refdes
    THEN LET part_id == st.refdes_to_part_id[cmd.args.refdes]
         IN  IF part_id # "" /\ part_id \in DOMAIN catalog
             THEN IF cmd.args.pin \notin SeqToSet(EntryPins(catalog[part_id]))
                  THEN AddErr(st, i, which \o "_pin_not_in_catalog")
                  ELSE st
             ELSE st
    ELSE IF cmd.args.refdes \in DOMAIN st.snapshot_components
    THEN LET snapshot_pins == st.snapshot_components[cmd.args.refdes].pins
         IN  IF snapshot_pins # <<>>
             THEN IF cmd.args.pin \notin SeqToSet(snapshot_pins)
                  THEN AddErr(st, i, which \o "_pin_not_in_snapshot")
                  ELSE st
             ELSE AddWarn(st, i, which \o "_pin_unchecked")
    ELSE st

\* Body of the loop of enforce_grounding for command i (0-based index i).
GroundStep(st, i, cmd, allowed, catalog) ==
    CASE cmd.op = "add_component" -> GroundAddComponent(st, i, cmd, allowed, catalog)
      [] cmd.op = "connect" -> GroundPin(st, i, cmd, catalog, "connect")
      [] cmd.op = "disconnect" -> GroundPin(st, i, cmd, catalog, "disconnect")
      [] OTHER -> st

RECURSIVE GroundLoop(_, _, _, _, _)
GroundLoop(doc, allowed, catalog, snap, n) ==
    IF n = 0 THEN GroundInit(snap)
    ELSE GroundStep(GroundLoop(doc, allowed, catalog, snap, n - 1), n - 1, doc[n],
                    allowed, catalog)

\* enforce_grounding(commands, allowed_part_ids, parts_by_id, snapshot) (lines 20-166)
enforce_grounding(doc, allowed, catalog, snap) ==
    LET st == GroundLoop(doc, allowed, catalog, snap, Len(doc))
    IN  [ok |-> st.errors = <<>>, errors |-> st.errors, warnings |-> st.warnings]

GroundCmds ==
    { AddComponent("P1", "R2"), AddComponent("P2", "R2"), AddComponent("P1", "R1"),
      AddComponent("PX", "R3"),
      Connect("R2", "1", "A"), Connect("R2", "2", "A"), Disconnect("R2", "9", "A"),
      Disconnect("R2", "1", "A"),
      Connect("R1", "9", "A"), Connect("R3", "1", "A"),
      Comment("note") }

AllowedSets == SUBSET {"P1", "P2", "PX"}

\* The agent's caller runs enforce_grounding on the document.
EnforceGrounding(allowed) ==
    /\ pc = "input"
    /\ allowed_part_ids' = allowed
    /\ gres' = Some(enforce_grounding(commands, allowed, parts_by_id, snapshot))
    /\ pc' = "grounded"
    /\ UNCHANGED <<raw_catalog, parts_by_id, load_warnings, snapshot, commands, vres, cres>>
    /\ UNCHANGED <<placer, probe, snapped, clamped, calls>>
    /\ UNCHANGED <<scan, norm>>

InitGround == InitWith({<<PartP1, PartP2>>}, {None, Some(SnapshotR1)})

NextGround ==
    \/ LoadCatalog
    \/ \E c \in GroundCmds : AppendCommand(c)
    \/ \E allowed \in AllowedSets : EnforceGrounding(allowed)

SpecGround == InitGround /\ [][NextGround]_vars

-----------------------------------------------------------------------------
(* Properties of the grounding result *)

Grounded == pc = "grounded"

GReportedAt(i) == {gres[1].errors[k].code : k \in {k \in 1..Len(gres[1].errors) : gres[1].errors[k].idx = i - 1}}

\* add_component commands before command i that add refdes
EarlierAdds(i, refdes) ==
    {j \in 1..(i - 1) : commands[j].op = "add_component" /\ commands[j].args.refdes = refdes}

\* Command i is a connect/disconnect on a component added earlier in the
\* document whose pin is outside the catalog pins of the part it was added as.
GroundPinOutside(i) ==
    /\ IsConnectivityCmd(commands[i])
    /\ EarlierAdds(i, commands[i].args.refdes) # {}
    /\ \A j \in EarlierAdds(i, commands[i].args.refdes) :
          /\ commands[j].args.part_id \in DOMAIN parts_by_id
          /\ commands[i].args.pin \notin SeqToSet(EntryPins(parts_by_id[commands[j].args.part_id]))

\* The refdes of add_component command i collides with the snapshot or an earlier add.
GroundCollision(i) ==
    /\ commands[i].op = "add_component"
    /\ \/ commands[i].args.refdes \in SnapshotRefdes
       \/ EarlierAdds(i, commands[i].args.refdes) # {}

\* C14: enforce_grounding returns ok = false with an error for every
\* add_component whose part_id is not in allowed_part_ids, in the catalog or
\* not, and for every connect/disconnect on a component added earlier whose
\* pin is not in the catalog pins of its part; ok = true only if there is no
\* such command and no added refdes collides with the snapshot or an earlier add.
C14_Grounding ==
    Grounded =>
        /\ \A i \in 1..Len(commands) :
              /\ (commands[i].op = "add_component"
                  /\ commands[i].args.part_id \notin allowed_part_ids) =>
                    (~gres[1].ok /\ "add_part_not_allowed" \in GReportedAt(i))
              /\ GroundPinOutside(i) =>
                    (~gres[1].ok
                     /\ (commands[i].op \o "_pin_not_in_catalog") \in GReportedAt(i))
        /\ gres[1].ok =>
              \A i \in 1..Len(commands) :
                  /\ commands[i].op = "add_component" =>
                        commands[i].args.part_id \in allowed_part_ids
                  /\ ~GroundPinOutside(i)
                  /\ ~GroundCollision(i)

\* A document refused for an add_component of a catalogued part that is not
\* allowed and for a disconnect on the added component with a pin outside
\* the catalog pins.
C14_Witness ==
    /\ Grounded
    /\ ~gres[1].ok
    /\ \E i \in 1..Len(commands) :
          /\ commands[i].op = "add_component"
          /\ commands[i].args.part_id \in DOMAIN parts_by_id
          /\ commands[i].args.part_id \notin allowed_part_ids
          /\ "add_part_not_allowed" \in GReportedAt(i)
    /\ \E i \in 1..Len(commands) :
          /\ commands[i].op = "disconnect"
          /\ GroundPinOutside(i)
          /\ "disconnect_pin_not_in_catalog" \in GReportedAt(i)

-----------------------------------------------------------------------------
(* ADD actions *)

IsAddAction(a) == a.type = "ADD"

\* C15: the action list of every accepted document compiled against an
\* indexed catalog holds exactly one ADD per add_component command, in
\* document order, with the refdes of the command and, as cmd, the
\* fusion_add string of the catalog part, unchanged.
C15_OneAddPerCommand ==
    Accepted =>
        LET aa == SelectSeq(cres[1].actions, IsAddAction)
            ac == SelectSeq(commands, IsAdd)
        IN  /\ Len(aa) = Len(ac)
            /\ \A k \in 1..Len(aa) :
                  /\ aa[k].refdes = ac[k].args.refdes
                  /\ aa[k].cmd = parts_by_id[ac[k].args.part_id].fusion_add.v

-----------------------------------------------------------------------------
(* The layout module driven on its own: a caller constructs a GridPlacer and
   calls snap_to_grid, clamp_rotation and place_all on it *)

MaxCoord == 30
MaxAngle == 800
MaxCalls == 3

\* Snapshot component as place_all reads it: a dict with refdes and the
\* top-level keys x, y, kind (and width, height when the exporter gives them).
LayoutComponent(refdes, kind, x, y) ==
    [refdes |-> refdes, part_id |-> None, pins |-> <<>>, placement |-> None,
     extra |-> [kind |-> kind, x |-> x, y |-> y]]

SizedComponent(refdes, x, y, width, height) ==
    [refdes |-> refdes, part_id |-> None, pins |-> <<>>, placement |-> None,
     extra |-> [x |-> x, y |-> y, width |-> width, height |-> height]]

LayoutSnapshot(comps) == [components |-> comps, nets |-> <<>>]

Anchored(part, anchor_refdes, dx, dy) ==
    [part EXCEPT !.anchor_refdes = Some(anchor_refdes), !.dx = dx, !.dy = dy]

Rotated(part, rotation) == [part EXCEPT !.rotation = rotation]

Sized(part, width, height) == [part EXCEPT !.width = Some(width), !.height = Some(height)]

LayoutSnapshots ==
    { None,
      \* one resistor on the grid
      Some(LayoutSnapshot(<<LayoutComponent("R0", "resistor", 0, 0)>>)),
      \* one resistor off the grid
      Some(LayoutSnapshot(<<LayoutComponent("R0", "resistor", 2, 0)>>)),
      \* a resistor and an IC
      Some(LayoutSnapshot(<<LayoutComponent("R0", "resistor", 120, 100),
                            LayoutComponent("U0", "ic", 0, 0)>>)),
      \* a component that covers every position a scan can reach
      Some(LayoutSnapshot(<<SizedComponent("R0", -100000, -100000, 200000, 200000)>>)) }

LayoutParts ==
    { PartToPlace("R1", "RES@LIB", "resistor"),
      PartToPlace("U1", "IC@LIB", "ic"),
      Rotated(PartToPlace("U2", "IC@LIB", "ic"), 45),
      Anchored(PartToPlace("C1", "CAP@LIB", "capacitor"), "R0", 0, 0),
      Rotated(Anchored(PartToPlace("C2", "CAP@LIB", "capacitor"), "R1", 1, 0), 405),
      Anchored(PartToPlace("C3", "CAP@LIB", "capacitor"), "R0", 10000, 10000),
      Sized(PartToPlace("J1", "CONN@LIB", "connector"), 35, 50) }

\* Lists of at most two of these parts, and the list of three parts of
\* test_deterministic_placement.
LayoutPartLists ==
    { <<>> }
    \cup { <<p>> : p \in LayoutParts }
    \cup { <<pq[1], pq[2]>> : pq \in {x \in LayoutParts \X LayoutParts : x[1].refdes # x[2].refdes} }
    \cup { <<PartToPlace("R1", "RES@LIB", "resistor"), PartToPlace("C1", "CAP@LIB", "capacitor"),
             PartToPlace("U1", "IC@LIB", "ic")>> }

RepeatPartLists ==
    { <<PartToPlace("R1", "RES@LIB", "resistor"), PartToPlace("C1", "CAP@LIB", "capacitor"),
        PartToPlace("U1", "IC@LIB", "ic")>>,
      <<Anchored(PartToPlace("C1", "CAP@LIB", "capacitor"), "R0", 0, 0)>>,
      <<PartToPlace("U1", "IC@LIB", "ic"), PartToPlace("U2", "IC@LIB", "ic")>> }

RepeatSnapshots ==
    { None,
      Some(LayoutSnapshot(<<LayoutComponent("R0", "resistor", 0, 0)>>)),
      Some(LayoutSnapshot(<<LayoutComponent("R0", "resistor", 120, 100),
                            LayoutComponent("U0", "ic", 0, 0)>>)) }

LayoutPlacers == {GridPlacer(10, 5, 500, 50), GridPlacer(10, 5, 100, 50), GridPlacer(10, 8, 500, 50)}

SnapPlacers == {GridPlacer(10, 5, 500, 50), GridPlacer(4, 1, 100, 8)}

InitLayout(placers, probes) ==
    /\ pc = "layout"
    /\ raw_catalog = <<>>
    /\ parts_by_id = EmptyDict
    /\ load_warnings = <<>>
    /\ snapshot = None
    /\ commands = <<>>
    /\ vres = None
    /\ cres = None
    /\ allowed_part_ids = {}
    /\ gres = None
    /\ placer \in {Some(p) : p \in placers}
    /\ probe \in probes
    /\ snapped = None
    /\ clamped = None
    /\ calls = <<>>
    /\ scan = None
    /\ norm = None

\* The caller calls placer.snap_to_grid(x, y).
SnapToGrid ==
    /\ pc = "layout"
    /\ snapped = None
    /\ snapped' = Some(snap_to_grid(placer[1], probe.x, probe.y))
    /\ UNCHANGED <<pc, raw_catalog, parts_by_id, load_warnings, snapshot, commands, vres, cres>>
    /\ UNCHANGED <<allowed_part_ids, gres, placer, probe, clamped, calls>>
    /\ UNCHANGED <<scan, norm>>

\* The caller calls placer.clamp_rotation(rotation).
ClampRotation ==
    /\ pc = "layout"
    /\ clamped = None
    /\ clamped' = Some(clamp_rotation(probe.rotation))
    /\ UNCHANGED <<pc, raw_catalog, parts_by_id, load_warnings, snapshot, commands, vres, cres>>
    /\ UNCHANGED <<allowed_part_ids, gres, placer, probe, snapped, calls>>
    /\ UNCHANGED <<scan, norm>>

\* The caller calls placer.place_all(new_parts, snap); the placer object is
\* left as it was (place_all assigns no attribute of self).
PlaceAll(new_parts, snap) ==
    /\ pc = "layout"
    /\ Len(calls) < MaxCalls
    /\ calls' = Append(calls, [new_parts |-> new_parts, snapshot |-> snap,
                               result |-> place_all(placer[1], new_parts, snap)])
    /\ UNCHANGED <<pc, raw_catalog, parts_by_id, load_warnings, snapshot, commands, vres, cres>>
    /\ UNCHANGED <<allowed_part_ids, gres, placer, probe, snapped, clamped>>
    /\ UNCHANGED <<scan, norm>>

InitSnap ==
    InitLayout(SnapPlacers,
               [x : (-MaxCoord)..MaxCoord, y : (-MaxCoord)..MaxCoord, rotation : {0}])

NextSnap == SnapToGrid

SpecSnap == InitSnap /\ [][NextSnap]_vars

InitClamp ==
    InitLayout({GridPlacer(10, 5, 500, 50)},
               [x : {0}, y : {0}, rotation : (-MaxAngle)..MaxAngle])

NextClamp == ClampRotation

SpecClamp == InitClamp /\ [][NextClamp]_vars

InitPlace == InitLayout(LayoutPlacers, {[x |-> 0, y |-> 0, rotation |-> 0]})

\* One place_all call on a fresh placer.
NextPlace ==
    \E new_parts \in LayoutPartLists : \E snap \in LayoutSnapshots :
        calls = <<>> /\ PlaceAll(new_parts, snap)

SpecPlace == InitPlace /\ [][NextPlace]_vars

InitRepeat ==
    InitLayout({GridPlacer(10, 5, 500, 50), GridPlacer(10, 5, 100, 50)},
               {[x |-> 0, y |-> 0, rotation |-> 0]})

\* Up to MaxCalls place_all calls on the same placer.
NextRepeat ==
    \E new_parts \in RepeatPartLists : \E snap \in RepeatSnapshots : PlaceAll(new_parts, snap)

SpecRepeat == InitRepeat /\ [][NextRepeat]_vars

-----------------------------------------------------------------------------
(* Properties of place_all *)

\* Width and height place_all gives a part (lines 269-275, 303-304).
PartSize(self, part) ==
    IF part.width # None /\ part.height # None /\ part.width[1] # 0 /\ part.height[1] # 0
    THEN <<(part.width[1] \div self.grid_step) * self.grid_step,
           (part.height[1] \div self.grid_step) * self.grid_step>>
    ELSE <<estimate_size_cells(part.part_id, part.kind)[1] * self.grid_step,
           estimate_size_cells(part.part_id, part.kind)[2] * self.grid_step>>

\* Rectangle of the k-th part of a call at its placement.
PlacedRect(self, call, k) ==
    LET part == call.new_parts[k]
        p == call.result[part.refdes]
    IN  Rect(p.x, p.y, PartSize(self, part)[1], PartSize(self, part)[2])

\* A rectangle grown by the margin on every side.
Padded(self, r) ==
    Rect(r.x - self.margin, r.y - self.margin, r.w + 2 * self.margin, r.h + 2 * self.margin)

\* C16 as stated: after place_all no two placed components' padded
\* rectangles intersect, and no placed component's padded rectangle
\* intersects the padded rectangle of a positioned snapshot component.
C16_Original ==
    \A c \in 1..Len(calls) :
        LET self == placer[1]
            call == calls[c]
            occupied == build_occupied(self, call.snapshot)
        IN  \A k \in 1..Len(call.new_parts) :
              /\ \A j \in 1..Len(call.new_parts) :
                    j # k => ~Intersects(Padded(self, PlacedRect(self, call, k)),
                                         Padded(self, PlacedRect(self, call, j)))
              /\ \A o \in 1..Len(occupied) :
                    ~Intersects(Padded(self, PlacedRect(self, call, k)), occupied[o])

\* Padded rectangles the k-th part of a call had to avoid: positioned
\* snapshot components and the parts placed before it in the call.
ObstaclesOf(self, call, k) ==
    SeqToSet(build_occupied(self, call.snapshot))
    \cup {Padded(self, PlacedRect(self, call, j)) : j \in 1..(k - 1)}

\* Every one of the max_attempts positions of the scan that starts at the
\* rectangle's position meets an obstacle.
ScanExhausted(self, obstacles, r) ==
    \A n \in 0..(max_attempts - 1) :
        LET p == ScanPosition(self, r.x, r.y, r.w, n)
        IN  \E o \in obstacles : Intersects(Rect(p[1], p[2], r.w, r.h), o)

\* C16 amended: after place_all the rectangle of every placed component is
\* disjoint from the padded rectangle of every positioned snapshot component
\* and of every component placed before it in the call, unless all
\* max_attempts positions of the scan from its position meet an obstacle.
C16_Amended ==
    \A c \in 1..Len(calls) :
        \A k \in 1..Len(calls[c].new_parts) :
            LET self == placer[1]
                r == PlacedRect(self, calls[c], k)
                obstacles == ObstaclesOf(self, calls[c], k)
            IN  \/ \A o \in obstacles : ~Intersects(r, o)
                \/ ScanExhausted(self, obstacles, r)

\* A call that placed a part anchored at a positioned snapshot component
\* away from the anchor and a second part after it.
C16_Witness ==
    \E c \in 1..Len(calls) :
        /\ calls[c].snapshot # None
        /\ Len(calls[c].new_parts) = 2
        /\ calls[c].new_parts[1].anchor_refdes = Some("R0")
        /\ calls[c].result["C1"].x = 40
        /\ ~ScanExhausted(placer[1], ObstaclesOf(placer[1], calls[c], 2),
                          PlacedRect(placer[1], calls[c], 2))

-----------------------------------------------------------------------------
(* Properties of snap_to_grid and clamp_rotation *)

Abs(n) == IF n < 0 THEN -n ELSE n

\* r is the multiple of step nearest to v, the even multiple when v lies
\* halfway between two multiples.
NearestEvenMultiple(v, r, step) ==
    /\ r % step = 0
    /\ 2 * Abs(v - r) <= step
    /\ 2 * Abs(v - r) = step => (r \div step) % 2 = 0

\* C19: snap_to_grid maps each coordinate to the nearest multiple of
\* grid_step, a coordinate halfway between two multiples to the even one;
\* with grid_step 10, 5 snaps to 0, 25 to 20, 6 to 10, 26 to 30, 14 to 10 and
\* 16 to 20.
C19_SnapHalfEven ==
    snapped # None =>
        LET step == placer[1].grid_step
            Example(v, r) == /\ probe.x = v => snapped[1][1] = r
                             /\ probe.y = v => snapped[1][2] = r
        IN  /\ NearestEvenMultiple(probe.x, snapped[1][1], step)
            /\ NearestEvenMultiple(probe.y, snapped[1][2], step)
            /\ step = 10 =>
                  /\ Example(5, 0)
                  /\ Example(25, 20)
                  /\ Example(6, 10)
                  /\ Example(26, 30)
                  /\ Example(14, 10)
                  /\ Example(16, 20)

\* (25, -15) snapped with grid_step 10: both coordinates halfway.
C19_Witness ==
    /\ snapped # None
    /\ placer[1].grid_step = 10
    /\ probe.x = 25
    /\ probe.y = -15
    /\ snapped[1] = <<20, -20>>

\* C20: clamp_rotation returns a value in {0, 90, 180, 270} for every angle,
\* negative or 360 and more: a multiple of 90 nearest to the angle reduced
\* modulo 360, 360 counting as 0; 45 gives 0, 50 gives 90, 360 gives 0 and
\* 405 gives 0.
C20_ClampRotation ==
    clamped # None =>
        LET reduced == probe.rotation % 360
        IN  /\ clamped[1] \in {0, 90, 180, 270}
            /\ \E m \in {0, 90, 180, 270, 360} :
                  /\ clamped[1] = m % 360
                  /\ 2 * Abs(reduced - m) <= 90
            /\ probe.rotation = 45 => clamped[1] = 0
            /\ probe.rotation = 50 => clamped[1] = 90
            /\ probe.rotation = 360 => clamped[1] = 0
            /\ probe.rotation = 405 => clamped[1] = 0

\* A negative angle whose reduction rounds up to 360.
C20_Witness ==
    /\ clamped # None
    /\ probe.rotation = -40
    /\ clamped[1] = 0

-----------------------------------------------------------------------------
(* Layout of the compiled action list *)

\* R1 with a placement at the spot the placer proposes on an empty sheet
SnapshotR1At60 ==
    [components |-> <<Component("R1", Some("P1"), <<"1", "2">>, Some(Placement(60, 0, 0, "Top")))>>,
     nets |-> <<>>]

\* The same snapshot as an exporter writes it that also gives top-level x, y
SnapshotExported ==
    [components |-> <<[refdes |-> "R1", part_id |-> Some("P1"), pins |-> <<"1", "2">>,
                       placement |-> Some(Placement(60, 0, 0, "Top")),
                       extra |-> [x |-> 60, y |-> 0]]>>,
     nets |-> <<>>]

PlaceCmds ==
    { AddComponent("P1", "R2"), AddComponent("P1", "R4"),
      PlaceComponent("R4", 60, 0, 0, "Top"), PlaceComponent("R4", 70, 10, 90, "Top"),
      PlaceComponent("R2", 300, 300, 0, "Bottom"),
      PlaceNear("R4", "R1", 5, 5, 0, "Top"),
      PlaceNear("R4", "R2", 0, 30, 0, "Top"),
      SetValue("R2", "120"),
      Comment("note") }

InitCompileLayout ==
    InitWith({<<PartP1>>}, {None, Some(SnapshotR1), Some(SnapshotR1At60), Some(SnapshotExported)})

NextCompileLayout ==
    \/ LoadCatalog
    \/ \E c \in PlaceCmds : AppendCommand(c)
    \/ Compile

SpecCompileLayout == InitCompileLayout /\ [][NextCompileLayout]_vars

\* Rectangle of a component of unknown kind at a position: the default
\* size of estimate_size_cells on the compiler's grid of 10.
DefaultRect(x, y) ==
    Rect(x, y, estimate_size_cells("", "unknown")[1] * 10, estimate_size_cells("", "unknown")[2] * 10)

\* refdes given a position by a place_component or place_near of the document
ExplicitlyPlaced ==
    {commands[i].args.refdes :
        i \in {j \in 1..Len(commands) : commands[j].op \in {"place_component", "place_near"}}}

IsPlaceAction(a) == a.type = "PLACE"

\* C17: in the action list of an accepted document the rectangle of every
\* component auto-placed by the compiler intersects neither the rectangle of
\* a snapshot component that has a placement nor the rectangle of a
\* component placed by place_component or place_near in the same document.
C17_CompiledLayoutFree ==
    Accepted =>
        LET places == SelectSeq(cres[1].actions, IsPlaceAction)
        IN  \A k \in 1..Len(places) :
              places[k].refdes \notin ExplicitlyPlaced =>
                  /\ snapshot # None =>
                        \A c \in 1..Len(snapshot[1].components) :
                            snapshot[1].components[c].placement # None =>
                                ~Intersects(DefaultRect(places[k].x, places[k].y),
                                            DefaultRect(snapshot[1].components[c].placement[1].x,
                                                        snapshot[1].components[c].placement[1].y))
                  /\ \A j \in 1..Len(places) :
                        places[j].refdes \in ExplicitlyPlaced =>
                            ~Intersects(DefaultRect(places[k].x, places[k].y),
                                        DefaultRect(places[j].x, places[j].y))

-----------------------------------------------------------------------------
(* Explicit placements in the compiled action list *)

\* Documents that add R2 and R4 and place them, or the snapshot's R1, by
\* place_component and place_near; rotation is any float for pydantic
\* (PlaceComponentArgs, PlaceNearArgs), layer is one of the two literals.
ExplicitCmds ==
    { AddComponent("P1", "R2"), AddComponent("P1", "R4"),
      PlaceComponent("R2", 100, 100, 45, "Top"),
      PlaceComponent("R2", 20, 30, 90, "Bottom"),
      PlaceComponent("R1", 200, 200, 0, "Top"),
      PlaceNear("R4", "R2", 10, -10, 270, "Bottom"),
      PlaceNear("R4", "R1", 5, 5, 180, "Top"),
      PlaceNear("R1", "R2", 1, 1, 0, "Top") }

InitExplicit ==
    InitWith({<<PartP1>>}, {None, Some(SnapshotR1), Some(SnapshotNoNets), Some(SnapshotExported)})

NextExplicit ==
    \/ LoadCatalog
    \/ \E c \in ExplicitCmds : AppendCommand(c)
    \/ Compile

SpecExplicit == InitExplicit /\ [][NextExplicit]_vars

PlacesOf(actions) == SelectSeq(actions, IsPlaceAction)

\* C21: every PLACE action of an accepted document has a rotation among
\* 0, 90, 180, 270 and a layer among Top, Bottom, whether the position was
\* computed by the placer or given by place_component or place_near.
C21_WellFormedPlacement ==
    Accepted =>
        \A k \in 1..Len(PlacesOf(cres[1].actions)) :
            /\ PlacesOf(cres[1].actions)[k].rotation \in {0, 90, 180, 270}
            /\ PlacesOf(cres[1].actions)[k].layer \in {"Top", "Bottom"}

-----------------------------------------------------------------------------
(* Catalog loading *)

\* Entries a catalog file may hold: the four parts above, a part without
\* pins (P5), a part filed under a key that differs from its catalog_id (P6),
\* a part whose fusion_add is not a string (P7), a part whose pins is not a
\* list (P8), and an entry that is not a dictionary (P9).
CatalogEntries ==
    { PartP1, PartP2, PartP3, PartP4,
      [id |-> "P5", entry |-> Entry(Str("P5"), Str("ADD P5"), Absent, Bool(FALSE))],
      [id |-> "P6", entry |-> Entry(Str("P9"), Str("ADD P6"), List(<<"1">>), Bool(TRUE))],
      [id |-> "P7", entry |-> Entry(Str("P7"), Other, List(<<"1">>), Absent)],
      [id |-> "P8", entry |-> Entry(Str("P8"), Str("ADD P8"), Other, Absent)],
      [id |-> "P9", entry |-> [is_dict |-> FALSE, catalog_id |-> Absent, fusion_add |-> Absent,
                               pins |-> Absent, set_value |-> Absent]] }

\* catalog["parts"] with at most two entries; the keys of a dict are distinct
Catalogs ==
    {<<>>} \cup {<<a>> : a \in CatalogEntries}
           \cup {<<p[1], p[2]>> : p \in {q \in CatalogEntries \X CatalogEntries : q[1] # q[2]}}

InitLoad == InitWith(Catalogs, {None})

NextLoad == LoadCatalog

SpecLoad == InitLoad /\ [][NextLoad]_vars

Loaded == pc = "input"

RawEntries == {raw_catalog[k] : k \in 1..Len(raw_catalog)}

LoadWarnings == {load_warnings[k] : k \in 1..Len(load_warnings)}

\* C22: after the catalog has been indexed, (1) a dictionary entry without a
\* fusion_add string makes index_parts fail, (2) every part of a returned
\* index has a non-empty fusion_add string and a list of pins, (3) an entry
\* without pins is indexed with the empty list and a warning, and (4) an
\* entry whose key differs from its catalog_id is indexed with a warning.
C22_PartInvariant ==
    /\ pc \in {"input", "load_failed"} =>
          ((\E e \in RawEntries : e.entry.is_dict /\ e.entry.fusion_add.t # "str")
               => pc = "load_failed")
    /\ Loaded =>
          /\ \A p \in DOMAIN parts_by_id :
                /\ parts_by_id[p].fusion_add.t = "str"
                /\ parts_by_id[p].fusion_add.v # ""
                /\ parts_by_id[p].pins.t = "list"
          /\ \A e \in RawEntries :
                /\ (e.entry.is_dict /\ e.entry.pins.t = "absent") =>
                      /\ e.id \in DOMAIN parts_by_id
                      /\ parts_by_id[e.id].pins = List(<<>>)
                      /\ [idx |-> e.id, code |-> "missing_pins"] \in LoadWarnings
                /\ (e.entry.is_dict /\ e.entry.catalog_id.t = "str"
                       /\ e.entry.catalog_id.v # e.id) =>
                      /\ e.id \in DOMAIN parts_by_id
                      /\ [idx |-> e.id, code |-> "catalog_id_mismatch"] \in LoadWarnings

\* placement of the snapshot component r, if it has one
SnapshotPlacementOf(r) ==
    IF snapshot = None THEN None
    ELSE LET hits == {k \in 1..Len(snapshot[1].components) :
                          /\ snapshot[1].components[k].refdes = r
                          /\ snapshot[1].components[k].placement # None}
         IN  IF hits = {} THEN None
             ELSE snapshot[1].components[CHOOSE k \in hits : \A j \in hits : j <= k].placement

\* Explicit placement on record for r after the first i commands: that of
\* the last place_component, or of the last place_near whose anchor had a
\* position (explicit, else from the snapshot) when the command was read.
RECURSIVE ExplicitAt(_, _)
ExplicitAt(i, r) ==
    IF i = 0 THEN None
    ELSE LET c == commands[i]
             prev == ExplicitAt(i - 1, r)
         IN  IF c.op = "place_component" /\ c.args.refdes = r
             THEN Some(Placement(c.args.x, c.args.y, c.args.rotation, c.args.layer))
             ELSE IF c.op = "place_near" /\ c.args.refdes = r
             THEN LET e == ExplicitAt(i - 1, c.args.anchor_refdes)
                      a == IF e # None THEN e ELSE SnapshotPlacementOf(c.args.anchor_refdes)
                  IN  IF a = None THEN prev
                      ELSE Some(Placement(a[1].x + c.args.dx, a[1].y + c.args.dy,
                                          c.args.rotation, c.args.layer))
             ELSE prev

ExplicitOf(r) == ExplicitAt(Len(commands), r)

IsAddCmd(c) == c.op = "add_component"

\* refdes of the add_component commands, in document order
AddedRefdes ==
    [k \in 1..Len(SelectSeq(commands, IsAddCmd)) |-> SelectSeq(commands, IsAddCmd)[k].args.refdes]

IsUnplaced(r) == ExplicitOf(r) = None

\* what the placement engine returns for the added components that have no
\* explicit placement, asked on the compiler's grid
EnginePlacements ==
    LET rs == SelectSeq(AddedRefdes, IsUnplaced)
    IN  place_all(GridPlacer(10, 5, 500, 50),
                  [k \in 1..Len(rs) |-> PartToPlace(rs[k], rs[k], "unknown")], snapshot)

PlacementOf(a) == Placement(a.x, a.y, a.rotation, a.layer)

\* C23: the PLACE actions of an accepted document are one per added refdes,
\* in the order of the add_component commands; each carries the explicit
\* placement on record for its refdes if there is one and the placement
\* engine's result otherwise.
C23_OnePlacePerAdd ==
    Accepted =>
        LET places == PlacesOf(cres[1].actions)
        IN  /\ Len(places) = Len(AddedRefdes)
            /\ \A k \in 1..Len(places) :
                  /\ places[k].refdes = AddedRefdes[k]
                  /\ PlacementOf(places[k]) =
                        IF ExplicitOf(AddedRefdes[k]) # None
                        THEN ExplicitOf(AddedRefdes[k])[1]
                        ELSE EnginePlacements[AddedRefdes[k]]

\* An accepted document that adds two components, one placed by a command
\* and one left to the placement engine
C23_Witness ==
    /\ Accepted
    /\ Len(AddedRefdes) = 2
    /\ \E j, k \in 1..2 : /\ ExplicitOf(AddedRefdes[j]) # None
                          /\ ExplicitOf(AddedRefdes[k]) = None
    /\ Len(PlacesOf(cres[1].actions)) = 2

\* the command at position i is the last one of the document that places
\* its refdes
LastPlacingCommand(i) ==
    /\ commands[i].op \in {"place_component", "place_near"}
    /\ \A j \in (i + 1)..Len(commands) :
          commands[j].op \in {"place_component", "place_near"} =>
              commands[j].args.refdes # commands[i].args.refdes

\* C24: for every place_component of an accepted document that is the last
\* command placing its refdes, newly added or already in the snapshot, the
\* action list has a PLACE for that refdes with the commanded x, y,
\* rotation and layer.
C24_ExplicitHonoured ==
    Accepted =>
        \A i \in 1..Len(commands) :
            (commands[i].op = "place_component" /\ LastPlacingCommand(i)) =>
                \E k \in 1..Len(PlacesOf(cres[1].actions)) :
                    /\ PlacesOf(cres[1].actions)[k].refdes = commands[i].args.refdes
                    /\ PlacementOf(PlacesOf(cres[1].actions)[k]) =
                          Placement(commands[i].args.x, commands[i].args.y,
                                    commands[i].args.rotation, commands[i].args.layer)

\* position the anchor of the place_near at position i has when the command
\* is read: an explicit placement recorded from an earlier command, else the
\* snapshot placement
AnchorPositionAt(i) ==
    IF ExplicitAt(i - 1, commands[i].args.anchor_refdes) # None
    THEN ExplicitAt(i - 1, commands[i].args.anchor_refdes)
    ELSE SnapshotPlacementOf(commands[i].args.anchor_refdes)

IsSkipWarning(w) == w.code = "place_near_anchor_unplaced"

PlaceOfRefdes(r) ==
    {PlacementOf(PlacesOf(cres[1].actions)[k]) :
        k \in {j \in 1..Len(PlacesOf(cres[1].actions)) : PlacesOf(cres[1].actions)[j].refdes = r}}

\* C25: in an accepted document, a place_near that is the last command
\* placing its refdes and whose anchor has a position when it is read gives
\* the PLACE of its refdes: anchor + (dx, dy) with the command's rotation
\* and layer; a place_near whose anchor has no position adds one warning
\* and, when no other command places the refdes, leaves it to the placement
\* engine.
C25_PlaceNearResolved ==
    Accepted =>
        /\ \A i \in 1..Len(commands) :
              commands[i].op = "place_near" =>
                  LET c == commands[i]
                      a == AnchorPositionAt(i)
                  IN  /\ (a # None /\ LastPlacingCommand(i)) =>
                            PlaceOfRefdes(c.args.refdes) =
                                {Placement(a[1].x + c.args.dx, a[1].y + c.args.dy,
                                           c.args.rotation, c.args.layer)}
                      /\ (a = None /\ ExplicitOf(c.args.refdes) = None
                             /\ c.args.refdes \in DOMAIN EnginePlacements) =>
                            PlaceOfRefdes(c.args.refdes) = {EnginePlacements[c.args.refdes]}
        /\ Len(SelectSeq(cres[1].warnings, IsSkipWarning)) =
              Cardinality({i \in 1..Len(commands) :
                              commands[i].op = "place_near" /\ AnchorPositionAt(i) = None})

-----------------------------------------------------------------------------
(* Commit of each placement inside one place_all call *)

\* Occupied list the k-th part of a call must be tested against: the
\* snapshot's padded rectangles followed by those of the parts placed
\* before it in the call.
OccupiedBefore(self, call, k) ==
    build_occupied(self, call.snapshot)
    \o [j \in 1..(k - 1) |-> Padded(self, PlacedRect(self, call, j))]

\* Earlier parts of the call that bear the anchor's name
EarlierNamed(call, k, refdes) ==
    {j \in 1..(k - 1) : call.new_parts[j].refdes = refdes}

\* Positioned snapshot components that bear the anchor's name
SnapshotNamed(call, refdes) ==
    IF call.snapshot = None THEN {}
    ELSE {c \in 1..Len(call.snapshot[1].components) :
             /\ call.snapshot[1].components[c].refdes = refdes
             /\ Get(call.snapshot[1].components[c].extra, "x") # None
             /\ Get(call.snapshot[1].components[c].extra, "y") # None}

\* Preferred point of the k-th part: its anchor's position plus the offset
\* in grid steps, the anchor being an earlier part of the call or else a
\* positioned snapshot component; without such an anchor the default column.
PreferredPoint(self, call, k) ==
    LET part == call.new_parts[k]
        name == IF part.anchor_refdes = None THEN "" ELSE part.anchor_refdes[1]
        earlier == EarlierNamed(call, k, name)
        existing == SnapshotNamed(call, name)
        occupied == build_occupied(self, call.snapshot)
    IN  IF name # "" /\ earlier # {}
        THEN LET j == CHOOSE j \in earlier : \A i \in earlier : i <= j
             IN  <<call.result[call.new_parts[j].refdes].x + part.dx * self.grid_step,
                   call.result[call.new_parts[j].refdes].y + part.dy * self.grid_step>>
        ELSE IF name # "" /\ existing # {}
        THEN LET c == CHOOSE c \in existing : \A i \in existing : i <= c
             IN  <<call.snapshot[1].components[c].extra["x"] + part.dx * self.grid_step,
                   call.snapshot[1].components[c].extra["y"] + part.dy * self.grid_step>>
        ELSE <<(IF occupied = <<>> THEN 0 ELSE MaxRight(occupied, 1)) + 6 * self.grid_step, 0>>

\* C26: in every place_all call the position of each part is the slot found
\* from its preferred point against the snapshot's padded rectangles and
\* the padded rectangles of all parts placed before it in the same call,
\* the preferred point of a part anchored at an earlier part of the call
\* being that part's position plus (dx * grid_step, dy * grid_step).
C26_CommitWithinBatch ==
    \A c \in 1..Len(calls) :
        \A k \in 1..Len(calls[c].new_parts) :
            LET self == placer[1]
                part == calls[c].new_parts[k]
                size == PartSize(self, part)
            IN  <<calls[c].result[part.refdes].x, calls[c].result[part.refdes].y>> =
                    find_free_slot(self, OccupiedBefore(self, calls[c], k),
                                   PreferredPoint(self, calls[c], k),
                                   <<size[1] \div self.grid_step, size[2] \div self.grid_step>>)

\* A call whose second part is anchored at its first part one grid step to
\* the right and was moved past the first part's padded rectangle.
C26_Witness ==
    \E c \in 1..Len(calls) :
        /\ Len(calls[c].new_parts) = 2
        /\ calls[c].new_parts[1].refdes = "R1"
        /\ calls[c].new_parts[2].anchor_refdes = Some("R1")
        /\ calls[c].result["C2"].x >=
              calls[c].result["R1"].x + PartSize(placer[1], calls[c].new_parts[1])[1] + placer[1].margin
        /\ calls[c].result["C2"].y = calls[c].result["R1"].y

-----------------------------------------------------------------------------
(* find_free_slot, one iteration of its while loop at a time *)

\* Locals of find_free_slot after lines 177-190
ScanStart(self, occupied, preferred_origin, size) ==
    LET start == snap_to_grid(self, preferred_origin[1], preferred_origin[2])
    IN  [occupied |-> occupied, preferred_origin |-> preferred_origin,
         width |-> size[1] * self.grid_step, height |-> size[2] * self.grid_step,
         start_x |-> start[1], start_y |-> start[2],
         x |-> start[1], y |-> start[2],
         attempts |-> 0, tests |-> 0, result |-> None]

\* Advance to the next position without the wrap to the next row
ScanAdvance_NoWrap(self, s) ==
    [s EXCEPT !.x = s.x + self.grid_step, !.attempts = s.attempts + 1, !.tests = s.tests + 1]

\* Advance to the next grid position, wrapping to the next row (lines 203-211)
ScanAdvance(self, s) ==
    IF s.x + self.grid_step + s.width > self.sheet_max_x
    THEN [s EXCEPT !.x = s.start_x, !.y = s.y + self.wrap_y_step,
                   !.attempts = s.attempts + 1, !.tests = s.tests + 1]
    ELSE [s EXCEPT !.x = s.x + self.grid_step,
                   !.attempts = s.attempts + 1, !.tests = s.tests + 1]

\* One evaluation of the loop condition and, if it holds, of the loop body
\* (lines 192-211); the fallback return when it does not (line 215)
ScanIterate(self, s) ==
    IF s.attempts < max_attempts
    THEN IF ~Collides(s.occupied, Rect(s.x, s.y, s.width, s.height))
         THEN [s EXCEPT !.tests = s.tests + 1, !.result = Some(<<s.x, s.y>>)]
         ELSE ScanAdvance(self, s)
    ELSE [s EXCEPT !.result = Some(<<s.start_x, s.start_y>>)]

ScanPlacers == {GridPlacer(10, 5, 500, 50), GridPlacer(10, 5, 150, 50), GridPlacer(10, 5, 100, 25)}

ScanSnapshots ==
    LayoutSnapshots
    \cup { \* a bar across the first row of the sheet
           Some(LayoutSnapshot(<<SizedComponent("R0", -50, -5, 1000, 20)>>)) }

ScanOrigins == {<<0, 0>>, <<2, 0>>, <<60, 0>>, <<7, 13>>, <<90, 20>>}

ScanSizes == {<<3, 1>>, <<6, 4>>}

\* The caller calls placer.find_free_slot(occupied, preferred_origin, size).
FindFreeSlotCall(occupied, preferred_origin, size) ==
    /\ pc = "layout"
    /\ scan = None
    /\ scan' = Some(ScanStart(placer[1], occupied, preferred_origin, size))
    /\ UNCHANGED <<pc, raw_catalog, parts_by_id, load_warnings, snapshot, commands, vres, cres>>
    /\ UNCHANGED <<allowed_part_ids, gres, placer, probe, snapped, clamped, calls, norm>>

\* The call runs one iteration of its loop, or returns.
FindFreeSlotStep ==
    /\ pc = "layout"
    /\ scan # None
    /\ scan[1].result = None
    /\ scan' = Some(ScanIterate(placer[1], scan[1]))
    /\ UNCHANGED <<pc, raw_catalog, parts_by_id, load_warnings, snapshot, commands, vres, cres>>
    /\ UNCHANGED <<allowed_part_ids, gres, placer, probe, snapped, clamped, calls, norm>>

InitScan == InitLayout(ScanPlacers, {[x |-> 0, y |-> 0, rotation |-> 0]})

NextScan ==
    \/ \E snap \in ScanSnapshots : \E o \in ScanOrigins : \E size \in ScanSizes :
          FindFreeSlotCall(build_occupied(placer[1], snap), o, size)
    \/ FindFreeSlotStep

\* A call that has started keeps running until it returns.
SpecScan == InitScan /\ [][NextScan]_vars /\ WF_vars(FindFreeSlotStep)

ScanReturned == scan # None /\ scan[1].result # None

ScanFree(s, p) == ~Collides(s.occupied, Rect(p[1], p[2], s.width, s.height))

GridAligned(self, p) == p[1] % self.grid_step = 0 /\ p[2] % self.grid_step = 0

ScanInvariant ==
    scan # None =>
        LET self == placer[1]
            s == scan[1]
        IN  /\ s.attempts \in 0..max_attempts
            /\ s.tests <= max_attempts
            /\ <<s.start_x, s.start_y>> =
                  snap_to_grid(self, s.preferred_origin[1], s.preferred_origin[2])
            /\ GridAligned(self, <<s.start_x, s.start_y>>)
            /\ <<s.x, s.y>> = ScanPosition(self, s.start_x, s.start_y, s.width, s.attempts)
            /\ s.x % self.grid_step = 0 /\ s.x >= s.start_x
            /\ (s.x = s.start_x \/ s.x + s.width <= self.sheet_max_x)
            /\ s.y >= s.start_y /\ (s.y - s.start_y) % self.wrap_y_step = 0
            /\ s.result # None =>
                  /\ s.result[1] = find_free_slot(self, s.occupied, s.preferred_origin,
                                                  <<s.width \div self.grid_step,
                                                    s.height \div self.grid_step>>)
                  /\ \/ /\ s.result[1] = <<s.x, s.y>>
                        /\ s.attempts < max_attempts
                        /\ ScanFree(s, s.result[1])
                     \/ /\ s.attempts = max_attempts
                        /\ s.result[1] = <<s.start_x, s.start_y>>

-----------------------------------------------------------------------------
(* normalize_net_name, one iteration of its while loop at a time *)

\* Locals of normalize_net_name after lines 49-50; follows counts the
\* executions of the loop body
NormStart(name, net_alias) ==
    [name |-> name, net_alias |-> net_alias, current |-> name, visited |-> {},
     follows |-> 0, result |-> None]

\* normalize_net_name that returns after following one alias
NormIterate_OneHop(s) ==
    IF s.current \in DOMAIN s.net_alias /\ s.current \notin s.visited
    THEN [s EXCEPT !.visited = s.visited \cup {s.current},
                   !.current = s.net_alias[s.current],
                   !.follows = s.follows + 1,
                   !.result = Some(s.net_alias[s.current])]
    ELSE [s EXCEPT !.result = Some(s.current)]

\* One evaluation of the loop condition and, if it holds, of the loop body
\* (lines 52-54); the return when it does not (line 56)
NormIterate(s) ==
    IF s.current \in DOMAIN s.net_alias /\ s.current \notin s.visited
    THEN [s EXCEPT !.visited = s.visited \cup {s.current},
                   !.current = s.net_alias[s.current],
                   !.follows = s.follows + 1]
    ELSE [s EXCEPT !.result = Some(s.current)]

\* Every alias map over the net names, well-formed or not: A -> A and
\* A -> B, B -> A are among them
AliasMaps == UNION {[S -> NetNames] : S \in SUBSET NetNames}

InitNormalize ==
    /\ pc = "normalize"
    /\ raw_catalog = <<>>
    /\ parts_by_id = EmptyDict
    /\ load_warnings = <<>>
    /\ snapshot = None
    /\ commands = <<>>
    /\ vres = None
    /\ cres = None
    /\ allowed_part_ids = {}
    /\ gres = None
    /\ placer = None
    /\ probe = [x |-> 0, y |-> 0, rotation |-> 0]
    /\ snapped = None
    /\ clamped = None
    /\ calls = <<>>
    /\ scan = None
    /\ norm = None

\* The caller calls normalize_net_name(name, net_alias).
NormalizeCall(name, net_alias) ==
    /\ pc = "normalize"
    /\ norm = None
    /\ norm' = Some(NormStart(name, net_alias))
    /\ UNCHANGED <<pc, raw_catalog, parts_by_id, load_warnings, snapshot, commands, vres, cres>>
    /\ UNCHANGED <<allowed_part_ids, gres, placer, probe, snapped, clamped, calls, scan>>

\* The call runs one iteration of its loop, or returns.
NormalizeStep ==
    /\ pc = "normalize"
    /\ norm # None
    /\ norm[1].result = None
    /\ norm' = Some(NormIterate(norm[1]))
    /\ UNCHANGED <<pc, raw_catalog, parts_by_id, load_warnings, snapshot, commands, vres, cres>>
    /\ UNCHANGED <<allowed_part_ids, gres, placer, probe, snapped, clamped, calls, scan>>

NextNormalize ==
    \/ \E name \in NetNames : \E net_alias \in AliasMaps : NormalizeCall(name, net_alias)
    \/ NormalizeStep

\* A call that has started keeps running until it returns.
SpecNormalize == InitNormalize /\ [][NextNormalize]_vars /\ WF_vars(NormalizeStep)

NormReturned == norm # None /\ norm[1].result # None

\* Name reached from a name by following at most k aliases
RECURSIVE FollowAlias(_, _, _)
FollowAlias(name, net_alias, k) ==
    IF k = 0 \/ name \notin DOMAIN net_alias THEN name
    ELSE FollowAlias(net_alias[name], net_alias, k - 1)

\* The chain from the name comes to an end: following as many aliases as the
\* map has keys leads to a name that is not a key
ChainEnds(name, net_alias) ==
    FollowAlias(name, net_alias, Cardinality(DOMAIN net_alias)) \notin DOMAIN net_alias

\* What holds at every moment of a normalize_net_name call: each execution
\* of the loop body follows a name not followed before, so there are at
\* most as many as the map has keys; a returned value is one of the names,
\* and when the chain from the argument ends it is the end of the chain,
\* which is not a key of the map.
NormInvariant ==
    norm # None =>
        LET s == norm[1]
        IN  /\ s.follows = Cardinality(s.visited)
            /\ s.visited \subseteq DOMAIN s.net_alias
            /\ s.follows <= Cardinality(DOMAIN s.net_alias)
            /\ s.result # None =>
                  /\ s.result[1] \in NetNames
                  /\ s.result[1] = normalize_net_name(s.name, s.net_alias)
                  /\ ChainEnds(s.name, s.net_alias) =>
                        /\ s.result[1] =
                              FollowAlias(s.name, s.net_alias, Cardinality(DOMAIN s.net_alias))
                        /\ s.result[1] \notin DOMAIN s.net_alias

\* C28: every normalize_net_name call returns, for every alias map and
\* cyclic ones too, after following each name at most once; the returned
\* name is the end of the chain when the chain ends.
C28_NormalizeTerminates == [](NormInvariant) /\ ((norm # None) ~> NormReturned)

\* A call on a cyclic map (A -> B, B -> A) that returned after following
\* both names once
C28_Witness ==
    /\ NormReturned
    /\ norm[1].net_alias = [n \in {"A", "B"} |-> IF n = "A" THEN "B" ELSE "A"]
    /\ norm[1].follows = 2
    /\ norm[1].result[1] \in DOMAIN norm[1].net_alias

-----------------------------------------------------------------------------
(* Repeated calls on the same arguments *)

\* The caller runs validate_commands a second time on the same arguments.
Revalidate ==
    /\ pc = "validated"
    /\ vres' = Some(validate_commands(commands, parts_by_id, snapshot))
    /\ pc' = "revalidated"
    /\ UNCHANGED <<raw_catalog, parts_by_id, load_warnings, snapshot, commands, cres>>
    /\ UNCHANGED <<allowed_part_ids, gres, placer, probe, snapped, clamped, calls>>
    /\ UNCHANGED <<scan, norm>>

\* The caller runs compile_to_actions a second time on the same arguments.
Recompile ==
    /\ pc = "compiled"
    /\ cres' = Some(compile_to_actions(commands, parts_by_id, snapshot))
    /\ pc' = "recompiled"
    /\ UNCHANGED <<raw_catalog, parts_by_id, load_warnings, snapshot, commands, vres>>
    /\ UNCHANGED <<allowed_part_ids, gres, placer, probe, snapped, clamped, calls>>
    /\ UNCHANGED <<scan, norm>>

InitPure == InitWith({<<PartP1, PartP2>>}, {None, Some(SnapshotR1)})

NextPure ==
    \/ LoadCatalog
    \/ \E c \in GeneralCmds : AppendCommand(c)
    \/ Validate
    \/ Compile
    \/ Revalidate
    \/ Recompile

SpecPure == InitPure /\ [][NextPure]_vars

\* a step in which validate_commands or compile_to_actions is called
CallStep == pc' \in {"validated", "compiled", "revalidated", "recompiled"} /\ pc' # pc

-----------------------------------------------------------------------------
(* Net names of the connectivity actions after the renames *)

IsRenameAction(a) == a.type = "RENAME_NET"

\* Names that a RENAME_NET of the action list renames away and that no net
\* bears once all RENAME_NET actions have been replayed on the snapshot
StaleNetNames(actions) ==
    LET renames == SelectSeq(actions, IsRenameAction)
    IN  {renames[k].from : k \in 1..Len(renames)} \ NetsAfter(renames, Len(renames))

\* C30: in the action list of an accepted document, no CONNECT or
\* DISCONNECT whose command names a net known at its place in the document
\* carries a name that the replayed RENAME_NET actions have renamed away and
\* that no net bears any more.
C30_NoStaleNetName ==
    Accepted =>
        LET ca == SelectSeq(cres[1].actions, IsConnectivityAction)
            idx == {i \in 1..Len(commands) : IsConnectivityCmd(commands[i])}
        IN  \A i \in idx :
              commands[i].args.net_name \in KnownNetsAt(commands, i) =>
                  ca[Cardinality({j \in idx : j <= i})].net_name
                      \notin StaleNetNames(cres[1].actions)

====
